---------------------------- MODULE Spec2Model ----------------------------
(***************************************************************************)
(* Join-to-Create temporary voice channels                                 *)
(* (src/Python_Files/join_to_create.py, class JoinToCreateManager).        *)
(*                                                                         *)
(* Python dicts are functions whose DOMAIN is the set of keys; a nullable  *)
(* column is a sequence of length 0 or 1.  Every coroutine is cut at its   *)
(* awaits: one action per segment between two suspension points.  A voice  *)
(* or channel event and the first segment of its handler are one action    *)
(* (the gateway updates the cache and dispatches the handler together).    *)
(* The guild configuration is the row written by /v1-setup with its        *)
(* defaults; the lookup in handle_temp_channel_leave either hits the       *)
(* cache (no suspension) or misses it (the handler suspends).              *)
(*                                                                         *)
(* A delete takes effect on the platform when it is issued; the gateway    *)
(* reports it later (cached \ exists holds the channels whose delete event *)
(* is still to come).  A finished or cancelled task leaves timers, so      *)
(* task.done() is "the id is no key of timers".                            *)
(*                                                                         *)
(* Scope: members are human except in SpecBot (member.bot returns at line  *)
(* 340); a member connects to a temp channel from outside voice, and       *)
(* leaves one by disconnecting or by joining the trigger channel; every    *)
(* member has at most one handle_trigger_join in flight; an operator's     *)
(* delete disconnects the members without a leave event of its own; the    *)
(* UPDATEs of schedule_channel_deletion and on_guild_channel_delete do not *)
(* raise.                                                                  *)
(*                                                                         *)
(* Each specification starts one part of the manager's life:               *)
(*   SpecCreate   the creation path                                        *)
(*   SpecLife     an existing channel emptying and refilling               *)
(*   SpecStop     the same, with stop() called at some point               *)
(*   SpecDelay    the deletion tasks of one channel and their cancellation *)
(*   SpecBot      the emptying path with a bot account among the members   *)
(*   SpecDisable  the emptying path of a guild that gets disabled          *)
(*   SpecUnavailable  the same, with a storage that may fail the lookup    *)
(*   SpecScenario the example of the design: create, leave, rejoin, expiry *)
(*   SpecCooldown the cooldown check under every cooldown                  *)
(*   SpecOrder    the creation path with both checks rejecting joins       *)
(*   SpecRecon    start(): the startup cleanup and the events during it    *)
(*   SpecGuard    the abuse guard alone                                    *)
(*   SpecConfig   get_guild_config, /v1-setup, /v2-disable, the dashboard  *)
(*                API (src/Flask_Frontend/app.py)                          *)
(*   SpecCommands the same without the dashboard API                       *)
(*   SpecXp       voice sessions of the leveling engine                    *)
(*                (src/Python_Files/level.py)                              *)
(***************************************************************************)
EXTENDS Integers, Sequences, FiniteSets, TLC

\* ------------------------------------------------------------ constants

\* config.get('user_cooldown_seconds', 10)
UserCooldown == 10
\* config.get('delete_delay_seconds', 20)
DeleteDelay == 20
\* cutoff = now - timedelta(minutes=1)
RateWindow == 60
\* check_guild_rate_limit(guild_id, max_per_minute=5)
MaxPerMinute == 5
\* self.CACHE_DURATION = 300
CACHE_DURATION == 300
\* "if not (0 <= delete_delay <= 300)"
MaxDeleteDelay == 300
\* "if not (0 <= user_cooldown <= 60)"
MaxUserCooldown == 60
\* settings.get("voice_xp_limit", 1500)
VoiceXpLimit == 1500
\* settings.get("xp_per_minute_in_voice", 4)
XpPerMinute == 4

\* ------------------------------------------------------------ bounds

\* channel ids the platform hands out (ids are never reused)
MaxChannels == 2
\* deletion tasks created by one process
MaxTimers == 3
\* leave handlers of one channel suspended at the config lookup together
MaxWaiting == 2

Guilds == {"g1", "g2"}
Users == {"u1", "u2"}
Channels == 1..MaxChannels
TimerIds == 1..MaxTimers

VARIABLES
    now,                \* datetime.now(timezone.utc) and the database's NOW()
    categoryOk,         \* guild -> config['category_id'] is a category channel
    exists,             \* temp channel ids that exist on the platform
    cached,             \* temp channel ids in the bot's channel cache
    occ,                \* channel id -> members connected to it
    inTrigger,          \* user -> guild whose trigger channel the user is in
    rec,                \* public.voice_temp_channels, keyed by channel_id
    lifetimeWrites,     \* channel id -> number of writes of total_lifetime_seconds
    temp_channels,      \* self.temp_channels
    deletion_tasks,     \* self.deletion_tasks (values are task ids)
    user_cooldowns,     \* self.user_cooldowns
    guild_rate_limits,  \* self.guild_rate_limits
    jh,                 \* user -> position of the user's handle_trigger_join
    leaveWaiting,       \* channel id -> handle_temp_channel_leave calls at the await
    timers,             \* task id -> position of a running schedule_channel_deletion
    nextTimer,          \* next task id
    nextChannel,        \* next channel id the platform assigns
    delh,               \* channel id -> lifetime held by a suspended on_guild_channel_delete
    emptySince,         \* channel id -> time the channel last became empty
    accepted,           \* guild -> times check_guild_rate_limit returned True
    created,            \* channel id -> [user, guild, t0] of the join that created it
    recon,              \* position of cleanup_orphaned_channels
    orphans,            \* channel ids that were orphans when cleanup started
    config,             \* the guilds' join_to_create_config row
    clock,              \* the instants the wall clock is observed at
    cancelled,          \* task ids task.cancel() was called on before they finished
    sleepingAtStop,     \* <<>>, or <<the task ids asleep when stop() was called>>
    config_cache,       \* self.config_cache: guild -> [config, timestamp]
    lookup,             \* position and outcome of the get_guild_config call
    admin,              \* position of the administrator's slash command
    voice_sessions,     \* LevelManager.voice_sessions: user -> [start, channel]
    voiceAt,            \* user -> the voice channel the member is connected to
    voice_xp,           \* user -> voice XP awarded by _award_voice_xp
    offTemp             \* user -> seconds of the session spent outside temp channels

vars == <<now, categoryOk, exists, cached, occ, inTrigger, rec, lifetimeWrites,
          temp_channels, deletion_tasks, user_cooldowns, guild_rate_limits, jh,
          leaveWaiting, timers, nextTimer, nextChannel, delh, emptySince,
          accepted, created, recon, orphans, config, clock, cancelled,
          sleepingAtStop, config_cache, lookup, admin, voice_sessions,
          voiceAt, voice_xp, offTemp>>

\* the state of get_guild_config
cfgVars == <<config_cache, lookup, admin>>

\* the state of the leveling engine's voice sessions
xpVars == <<voice_sessions, voiceAt, voice_xp, offTemp>>

\* the state of the channel lifecycle
lifeVars == <<categoryOk, exists, cached, occ, inTrigger, rec, lifetimeWrites,
              temp_channels, deletion_tasks, user_cooldowns, guild_rate_limits,
              jh, leaveWaiting, timers, nextTimer, nextChannel, delh, emptySince,
              accepted, created, recon, orphans, cancelled, sleepingAtStop>>

\* ------------------------------------------------------------ dict helpers

EmptyDict == [x \in {} |-> 0]

Put(f, k, v) == [x \in DOMAIN f \cup {k} |-> IF x = k THEN v ELSE f[x]]

Del(f, k) == [x \in DOMAIN f \ {k} |-> f[x]]

\* ------------------------------------------------------------ AbuseGuard

\* check_user_cooldown: the value returned
CooldownPassesAlways(uc, g, u, cd, t) == TRUE

CooldownPassesStrict(uc, g, u, cd, t) ==
    \/ <<g, u>> \notin DOMAIN uc
    \/ ~(t - uc[<<g, u>>] <= cd)

CooldownPasses(uc, g, u, cd, t) ==
    \/ <<g, u>> \notin DOMAIN uc
    \/ ~(t - uc[<<g, u>>] < cd)

\* check_user_cooldown: self.user_cooldowns after the call
CooldownAfterAnyGuild(uc, g, u, cd, t) ==
    IF CooldownPasses(uc, g, u, cd, t)
        THEN [key \in DOMAIN uc \cup {<<g2, u>> : g2 \in Guilds} |->
                 IF key[2] = u THEN t ELSE uc[key]]
        ELSE uc

CooldownAfter(uc, g, u, cd, t) ==
    IF CooldownPasses(uc, g, u, cd, t) THEN Put(uc, <<g, u>>, t) ELSE uc

\* check_guild_rate_limit: the list after "remove timestamps older than 1 minute"
RatePurged(rl, g, t) ==
    IF g \in DOMAIN rl
        THEN SelectSeq(rl[g], LAMBDA ts : ts > t - RateWindow)
        ELSE <<>>

\* check_guild_rate_limit: the value returned
RatePasses(rl, g, t) == Len(RatePurged(rl, g, t)) < MaxPerMinute

\* check_guild_rate_limit: self.guild_rate_limits after the call
RateAfter(rl, g, t) ==
    IF RatePasses(rl, g, t)
        THEN Put(rl, g, Append(RatePurged(rl, g, t), t))
        ELSE Put(rl, g, RatePurged(rl, g, t))

\* ------------------------------------------------------------ platform view

\* len(channel.members) of a channel object; a deleted channel has no members
MembersNone(o, c) == {}

Members(o, c) == IF c \in DOMAIN o THEN o[c] ELSE {}

\* the voice channel a user is connected to, as a sequence of length 0 or 1
ChannelOf(o, u) ==
    IF \E c \in DOMAIN o : u \in o[c]
        THEN <<CHOOSE c \in DOMAIN o : u \in o[c]>>
        ELSE <<>>

\* occupancy after user u left whatever temp channel u was in
Without(o, u) == [c \in DOMAIN o |-> o[c] \ {u}]

\* the time each existing channel last became empty, after occupancy became o2
EmptySinceAfter(o2) ==
    [c \in DOMAIN o2 |->
        IF o2[c] = {} /\ (c \notin DOMAIN occ \/ occ[c] # {})
            THEN now
            ELSE IF c \in DOMAIN emptySince THEN emptySince[c] ELSE now]

\* the acceptances of guild g within the closed window [t - 60, t]
InWindow(acc, t) == SelectSeq(acc, LAMBDA ts : ts >= t - RateWindow)

\* ------------------------------------------------------------ deletion tasks

\* asyncio.create_task(self.schedule_channel_deletion(channel_id, delay_seconds))
NewTimer(T, id, c, delay, t) ==
    Put(T, id, [ch |-> c, due |-> t + delay, pc |-> "sleep", life |-> 0,
                t0 |-> t, d |-> delay])

\* "if not task.done(): task.cancel()" on the handle stored for channel c
CancelStoredNoop(T, D, c) == T

CancelStored(T, D, c) == IF c \in DOMAIN D THEN Del(T, D[c]) ELSE T

\* the tasks task.cancel() has been called on, after the same lines
CancelledAfter(C, T, D, c) ==
    IF c \in DOMAIN D /\ D[c] \in DOMAIN T THEN C \cup {D[c]} ELSE C

\* "config.get('delete_delay_seconds', 20) if config else 20" (line 523) when
\* get_guild_config read the row: a disabled row is not selected
DelaySeconds(cfg) == IF cfg.enabled THEN cfg.delete_delay_seconds ELSE DeleteDelay

\* handle_temp_channel_leave up to its await (hit = FALSE) or to its end
\* (hit = TRUE: get_guild_config answers from the cache without suspending;
\* the cache holds the row of an enabled guild, and that of a disabled one
\* only until /v2-disable invalidates it)
HandleTempChannelLeave(c, members, hit) ==
    LET T1 == CancelStored(timers, deletion_tasks, c)
        D1 == Del(deletion_tasks, c)
    IN  /\ cancelled' = CancelledAfter(cancelled, timers, deletion_tasks, c)
        /\ IF members # {}
               THEN /\ hit
                    /\ timers' = T1
                    /\ deletion_tasks' = D1
                    /\ UNCHANGED <<leaveWaiting, nextTimer>>
               ELSE IF hit
                   THEN /\ config.enabled \/ admin = "disable"
                        /\ nextTimer <= MaxTimers
                        /\ timers' = NewTimer(T1, nextTimer, c,
                                              config.delete_delay_seconds, now)
                        /\ deletion_tasks' = Put(D1, c, nextTimer)
                        /\ nextTimer' = nextTimer + 1
                        /\ UNCHANGED leaveWaiting
                   ELSE /\ leaveWaiting[c] < MaxWaiting
                        /\ leaveWaiting' = [leaveWaiting EXCEPT ![c] = @ + 1]
                        /\ timers' = T1
                        /\ deletion_tasks' = D1
                        /\ UNCHANGED nextTimer

\* on_voice_state_update, lines 346-348: b is before.channel (length 0 or 1)
\* and o2 the occupancy when the lines run
OnLeft(b, o2, hit) ==
    IF b # <<>> /\ b[1] \in DOMAIN temp_channels
        THEN HandleTempChannelLeave(b[1], Members(o2, b[1]), hit)
        ELSE /\ hit
             /\ UNCHANGED <<timers, deletion_tasks, leaveWaiting, nextTimer,
                                 cancelled>>

\* ------------------------------------------------------------ trigger join

IdleJoin ==
    [pc |-> "idle", g |-> "g1", ch |-> <<>>, private |-> FALSE, moved |-> FALSE,
     t0 |-> 0, before |-> <<>>]

\* the handler of user u returns; lines 346-348 of on_voice_state_update follow
Finish(u, moved, o2, hit) ==
    /\ jh' = [jh EXCEPT ![u] = [IdleJoin EXCEPT !.ch = jh[u].ch, !.g = jh[u].g,
                                               !.moved = moved]]
    /\ OnLeft(jh[u].before, o2, hit)

\* what handle_trigger_join decides before its first await
\* ("disabled": get_guild_config found no enabled row, line 343)
JoinResultUnlimited(g, u) ==
    IF ~config.enabled
        THEN "disabled"
        ELSE IF ~CooldownPasses(user_cooldowns, g, u,
                                config.user_cooldown_seconds, now)
            THEN "cooldown"
            ELSE IF ~categoryOk[g] THEN "category" ELSE "accepted"

JoinResult(g, u) ==
    IF ~config.enabled
        THEN "disabled"
        ELSE IF ~CooldownPasses(user_cooldowns, g, u,
                                config.user_cooldown_seconds, now)
            THEN "cooldown"
            ELSE IF ~RatePasses(guild_rate_limits, g, now)
                THEN "rate"
                ELSE IF ~categoryOk[g] THEN "category" ELSE "accepted"

\* on_voice_state_update for a join of the trigger channel of guild g, and
\* handle_trigger_join up to "await guild.create_voice_channel"; priv: the
\* member holds private_vc_role_id at the time of the join
TriggerJoin(g, u, priv, hit) ==
    LET b == ChannelOf(occ, u)
        o2 == Without(occ, u)
        res == JoinResult(g, u)
    IN  /\ u \notin DOMAIN inTrigger
        /\ inTrigger' = Put(inTrigger, u, g)
        /\ occ' = o2
        /\ emptySince' = EmptySinceAfter(o2)
        /\ user_cooldowns' = IF res = "disabled"
                                 THEN user_cooldowns
                                 ELSE CooldownAfter(user_cooldowns, g, u,
                                                    config.user_cooldown_seconds, now)
        /\ guild_rate_limits' = IF res \in {"disabled", "cooldown"}
                                    THEN guild_rate_limits
                                    ELSE RateAfter(guild_rate_limits, g, now)
        /\ accepted' = IF res \in {"disabled", "cooldown", "rate"}
                           THEN accepted
                           ELSE [accepted EXCEPT ![g] = Append(InWindow(@, now), now)]
        /\ IF res = "accepted"
               THEN /\ hit
                    /\ jh[u].pc = "idle"
                    /\ jh' = [jh EXCEPT ![u] =
                                 [pc |-> "create", g |-> g, ch |-> <<>>,
                                  private |-> priv, moved |-> FALSE,
                                  t0 |-> now, before |-> b]]
                    /\ UNCHANGED <<timers, deletion_tasks, leaveWaiting, nextTimer,
                                 cancelled>>
               ELSE /\ ~priv
                    /\ UNCHANGED jh
                    /\ OnLeft(b, o2, hit)
        /\ UNCHANGED <<now, categoryOk, exists, cached, rec, lifetimeWrites,
                       temp_channels, nextChannel, delh, created, recon, orphans,
                       config, clock,
                       sleepingAtStop, cfgVars, xpVars>>

\* guild.create_voice_channel returns; line 418; "await conn.execute(INSERT" starts
CreateChannelOk(u) ==
    LET c == nextChannel
    IN  /\ jh[u].pc = "create"
        /\ nextChannel <= MaxChannels
        /\ exists' = exists \cup {c}
        /\ cached' = cached \cup {c}
        /\ occ' = Put(occ, c, {})
        /\ emptySince' = EmptySinceAfter(occ')
        /\ temp_channels' = Put(temp_channels, c, now)
        /\ nextChannel' = nextChannel + 1
        /\ created' = Put(created, c, [user |-> u, guild |-> jh[u].g, t0 |-> jh[u].t0])
        /\ jh' = [jh EXCEPT ![u].pc = "insert", ![u].ch = <<c>>]
        /\ UNCHANGED <<now, categoryOk, inTrigger, rec, lifetimeWrites, deletion_tasks,
                       user_cooldowns, guild_rate_limits, leaveWaiting, timers,
                       nextTimer, delh, accepted, recon, orphans, config,
                       clock,
                       cancelled, sleepingAtStop, cfgVars, xpVars>>

\* guild.create_voice_channel raises (lines 457-460)
CreateChannelFail(u, hit) ==
    /\ jh[u].pc = "create"
    /\ Finish(u, FALSE, occ, hit)
    /\ UNCHANGED <<now, categoryOk, exists, cached, occ, inTrigger, rec, lifetimeWrites,
                   temp_channels, user_cooldowns, guild_rate_limits, nextChannel,
                   delh, emptySince, accepted, created, recon, orphans,
                   config, clock,
                       sleepingAtStop, cfgVars, xpVars>>

\* the INSERT returns; "await member.move_to" starts
InsertOk(u) ==
    /\ jh[u].pc = "insert"
    /\ rec' = Put(rec, jh[u].ch[1],
                  [guild |-> jh[u].g, created_at |-> now, deleted_at |-> <<>>,
                   lifetime |-> <<>>])
    /\ jh' = [jh EXCEPT ![u].pc = "move"]
    /\ UNCHANGED <<now, categoryOk, exists, cached, occ, inTrigger, lifetimeWrites,
                   temp_channels, deletion_tasks, user_cooldowns, guild_rate_limits,
                   leaveWaiting, timers, nextTimer, nextChannel, delh, emptySince,
                   accepted, created, recon, orphans, config, clock,
                       cancelled, sleepingAtStop, cfgVars, xpVars>>

\* the INSERT raises: "except Exception" of line 459 ends the handler
InsertFail(u, hit) ==
    /\ jh[u].pc = "insert"
    /\ Finish(u, FALSE, occ, hit)
    /\ UNCHANGED <<now, categoryOk, exists, cached, occ, inTrigger, rec, lifetimeWrites,
                   temp_channels, user_cooldowns, guild_rate_limits, nextChannel,
                   delh, emptySince, accepted, created, recon, orphans,
                   config, clock,
                       sleepingAtStop, cfgVars, xpVars>>

\* member.move_to returns: the member is in the new channel
MoveOk(u, hit) ==
    LET c == jh[u].ch[1]
        o2 == Put(occ, c, occ[c] \cup {u})
    IN  /\ jh[u].pc = "move"
        /\ u \in DOMAIN inTrigger
        /\ c \in exists
        /\ inTrigger' = Del(inTrigger, u)
        /\ occ' = o2
        /\ emptySince' = EmptySinceAfter(o2)
        /\ IF jh[u].private
               THEN /\ hit
                    /\ jh' = [jh EXCEPT ![u].pc = "send", ![u].moved = TRUE]
                    /\ UNCHANGED <<timers, deletion_tasks, leaveWaiting, nextTimer,
                                 cancelled>>
               ELSE Finish(u, TRUE, o2, hit)
        /\ UNCHANGED <<now, categoryOk, exists, cached, rec, lifetimeWrites,
                       temp_channels, user_cooldowns, guild_rate_limits, nextChannel,
                       delh, accepted, created, recon, orphans, config,
                       clock,
                       sleepingAtStop, cfgVars, xpVars>>

\* "except discord.HTTPException": temp_channel.delete is issued, and either
\* takes effect on the platform (ok) or raises (lines 452-460)
Rollback(u, ok, hit) ==
    LET c == jh[u].ch[1]
    IN  IF ok
            THEN /\ hit
                 /\ c \in exists
                 /\ exists' = exists \ {c}
                 /\ occ' = Del(occ, c)
                 /\ emptySince' = Del(emptySince, c)
                 /\ jh' = [jh EXCEPT ![u].pc = "rollback"]
                 /\ UNCHANGED <<timers, deletion_tasks, leaveWaiting, nextTimer,
                                 cancelled>>
            ELSE /\ Finish(u, jh[u].moved, occ, hit)
                 /\ UNCHANGED <<exists, occ, emptySince>>

\* member.move_to raises discord.HTTPException
MoveFail(u, ok, hit) ==
    /\ jh[u].pc = "move"
    /\ Rollback(u, ok, hit)
    /\ UNCHANGED <<now, categoryOk, cached, inTrigger, rec, lifetimeWrites,
                   temp_channels, user_cooldowns, guild_rate_limits, nextChannel,
                   delh, accepted, created, recon, orphans, config, clock,
                       sleepingAtStop, cfgVars, xpVars>>

\* member.move_to raises an exception that is no discord.HTTPException (a
\* timeout, a connection error): line 452 does not catch it, line 459 does
MoveRaise(u, hit) ==
    /\ jh[u].pc = "move"
    /\ Finish(u, FALSE, occ, hit)
    /\ UNCHANGED <<now, categoryOk, exists, cached, occ, inTrigger, rec, lifetimeWrites,
                   temp_channels, user_cooldowns, guild_rate_limits, nextChannel,
                   delh, emptySince, accepted, created, recon, orphans,
                   config, clock,
                       sleepingAtStop, cfgVars, xpVars>>

\* temp_channel.send returns (private channels only)
SendOk(u, hit) ==
    /\ jh[u].pc = "send"
    /\ Finish(u, TRUE, occ, hit)
    /\ UNCHANGED <<now, categoryOk, exists, cached, occ, inTrigger, rec, lifetimeWrites,
                   temp_channels, user_cooldowns, guild_rate_limits, nextChannel,
                   delh, emptySince, accepted, created, recon, orphans,
                   config, clock,
                       sleepingAtStop, cfgVars, xpVars>>

\* temp_channel.send raises discord.HTTPException
SendFail(u, ok, hit) ==
    /\ jh[u].pc = "send"
    /\ Rollback(u, ok, hit)
    /\ UNCHANGED <<now, categoryOk, cached, inTrigger, rec, lifetimeWrites,
                   temp_channels, user_cooldowns, guild_rate_limits, nextChannel,
                   delh, accepted, created, recon, orphans, config, clock,
                       sleepingAtStop, cfgVars, xpVars>>

\* temp_channel.delete returned: "del self.temp_channels[temp_channel.id]"
\* (a KeyError is caught by line 459)
RollbackReturn(u, hit) ==
    /\ jh[u].pc = "rollback"
    /\ temp_channels' = Del(temp_channels, jh[u].ch[1])
    /\ Finish(u, jh[u].moved, occ, hit)
    /\ UNCHANGED <<now, categoryOk, exists, cached, occ, inTrigger, rec, lifetimeWrites,
                   user_cooldowns, guild_rate_limits, nextChannel, delh, emptySince,
                   accepted, created, recon, orphans, config, clock,
                       sleepingAtStop, cfgVars, xpVars>>

\* ------------------------------------------------------------ members

\* a member connects to an existing temp channel (no handler acts on it)
UserJoinChannel(u, c) ==
    /\ u \notin DOMAIN inTrigger
    /\ ChannelOf(occ, u) = <<>>
    /\ jh[u].pc = "idle"
    /\ c \in exists
    /\ occ' = Put(occ, c, occ[c] \cup {u})
    /\ emptySince' = EmptySinceAfter(occ')
    /\ UNCHANGED <<now, categoryOk, exists, cached, inTrigger, rec, lifetimeWrites,
                   temp_channels, deletion_tasks, user_cooldowns, guild_rate_limits,
                   jh, leaveWaiting, timers, nextTimer, nextChannel, delh, accepted,
                   created, recon, orphans, config, clock,
                       cancelled, sleepingAtStop, cfgVars, xpVars>>

\* a member disconnects from the trigger channel (before.channel is not tracked)
UserLeaveTrigger(u) ==
    /\ u \in DOMAIN inTrigger
    /\ inTrigger' = Del(inTrigger, u)
    /\ UNCHANGED <<now, categoryOk, exists, cached, occ, rec, lifetimeWrites,
                   temp_channels, deletion_tasks, user_cooldowns, guild_rate_limits,
                   jh, leaveWaiting, timers, nextTimer, nextChannel, delh, emptySince,
                   accepted, created, recon, orphans, config, clock,
                       cancelled, sleepingAtStop, cfgVars, xpVars>>

\* a member disconnects from a temp channel: on_voice_state_update, lines 346-348
UserLeave(u, hit) ==
    LET b == ChannelOf(occ, u)
        o2 == Without(occ, u)
    IN  /\ b # <<>>
        /\ occ' = o2
        /\ emptySince' = EmptySinceAfter(o2)
        /\ OnLeft(b, o2, hit)
        /\ UNCHANGED <<now, categoryOk, exists, cached, inTrigger, rec, lifetimeWrites,
                       temp_channels, user_cooldowns, guild_rate_limits, jh,
                       nextChannel, delh, accepted, created, recon, orphans,
                       config, clock,
                       sleepingAtStop, cfgVars, xpVars>>

\* a bot account connects to an existing temp channel
BotJoinChannel(b, c) ==
    /\ ChannelOf(occ, b) = <<>>
    /\ c \in exists
    /\ occ' = Put(occ, c, occ[c] \cup {b})
    /\ emptySince' = EmptySinceAfter(occ')
    /\ UNCHANGED <<now, categoryOk, exists, cached, inTrigger, rec, lifetimeWrites,
                   temp_channels, deletion_tasks, user_cooldowns, guild_rate_limits,
                   jh, leaveWaiting, timers, nextTimer, nextChannel, delh, accepted,
                   created, recon, orphans, config, clock,
                   cancelled, sleepingAtStop, cfgVars, xpVars>>

\* a bot account disconnects from a temp channel: on_voice_state_update
\* returns at "if member.bot: return" (lines 339-340)
BotLeave(b) ==
    /\ ChannelOf(occ, b) # <<>>
    /\ occ' = Without(occ, b)
    /\ emptySince' = EmptySinceAfter(occ')
    /\ UNCHANGED <<now, categoryOk, exists, cached, inTrigger, rec, lifetimeWrites,
                   temp_channels, deletion_tasks, user_cooldowns, guild_rate_limits,
                   jh, leaveWaiting, timers, nextTimer, nextChannel, delh, accepted,
                   created, recon, orphans, config, clock,
                   cancelled, sleepingAtStop, cfgVars, xpVars>>

\* handle_temp_channel_leave resumes from get_guild_config: lines 523-529
LeaveResume(c) ==
    /\ leaveWaiting[c] > 0
    /\ nextTimer <= MaxTimers
    /\ leaveWaiting' = [leaveWaiting EXCEPT ![c] = @ - 1]
    /\ timers' = NewTimer(timers, nextTimer, c, DelaySeconds(config), now)
    /\ deletion_tasks' = Put(deletion_tasks, c, nextTimer)
    /\ nextTimer' = nextTimer + 1
    /\ UNCHANGED <<now, categoryOk, exists, cached, occ, inTrigger, rec, lifetimeWrites,
                   temp_channels, user_cooldowns, guild_rate_limits, jh, nextChannel,
                   delh, emptySince, accepted, created, recon, orphans,
                   config, clock,
                       cancelled, sleepingAtStop, cfgVars, xpVars>>

\* the conn.fetchrow of get_guild_config raises (lines 150-156): nothing in
\* get_guild_config or handle_temp_channel_leave catches it, so lines 523-529
\* do not run
LeaveResumeRaise(c) ==
    /\ leaveWaiting[c] > 0
    /\ leaveWaiting' = [leaveWaiting EXCEPT ![c] = @ - 1]
    /\ UNCHANGED <<now, categoryOk, exists, cached, occ, inTrigger, rec, lifetimeWrites,
                   temp_channels, deletion_tasks, user_cooldowns, guild_rate_limits,
                   jh, timers, nextTimer, nextChannel, delh, emptySince, accepted,
                   created, recon, orphans, config, clock,
                   cancelled, sleepingAtStop, cfgVars, xpVars>>

\* ------------------------------------------------------------ schedule_channel_deletion

\* the lifetime computed at lines 556-561
LifetimeSinceEmpty(c) == IF c \in DOMAIN emptySince THEN now - emptySince[c] ELSE 0

Lifetime(c) == IF c \in DOMAIN temp_channels THEN now - temp_channels[c] ELSE 0

\* asyncio.sleep returns; lines 545-561; "await conn.execute(UPDATE" starts
TimerWake(t) ==
    LET c == timers[t].ch
    IN  /\ t \in DOMAIN timers
        /\ timers[t].pc = "sleep"
        /\ now >= timers[t].due
        /\ timers' = IF c \notin cached \/ Members(occ, c) # {}
                         THEN Del(timers, t)
                         ELSE [timers EXCEPT ![t].pc = "update",
                                             ![t].life = Lifetime(c)]
        /\ UNCHANGED <<now, categoryOk, exists, cached, occ, inTrigger, rec,
                       lifetimeWrites, temp_channels, deletion_tasks, user_cooldowns,
                       guild_rate_limits, jh, leaveWaiting, nextTimer, nextChannel,
                       delh, emptySince, accepted, created, recon, orphans,
                       config, clock,
                       cancelled, sleepingAtStop, cfgVars, xpVars>>

\* the record after "SET deleted_at = NOW(), total_lifetime_seconds = $2"
Finalized(r, life) == [r EXCEPT !.deleted_at = <<now>>, !.lifetime = <<life>>]

\* the UPDATE of lines 565-571 takes effect in the database
TimerDbApply(t) ==
    LET c == timers[t].ch
    IN  /\ t \in DOMAIN timers
        /\ timers[t].pc = "update"
        /\ IF c \in DOMAIN rec
               THEN /\ rec' = [rec EXCEPT ![c] = Finalized(@, timers[t].life)]
                    /\ lifetimeWrites' = [lifetimeWrites EXCEPT ![c] = @ + 1]
               ELSE UNCHANGED <<rec, lifetimeWrites>>
        /\ timers' = [timers EXCEPT ![t].pc = "updated"]
        /\ UNCHANGED <<now, categoryOk, exists, cached, occ, inTrigger, temp_channels,
                       deletion_tasks, user_cooldowns, guild_rate_limits, jh,
                       leaveWaiting, nextTimer, nextChannel, delh, emptySince,
                       accepted, created, recon, orphans, config, clock,
                       cancelled, sleepingAtStop, cfgVars, xpVars>>

\* the task resumes from the UPDATE and issues channel.delete (line 574), which
\* takes effect on the platform (ok) or raises (line 585)
TimerDelete(t, ok) ==
    LET c == timers[t].ch
    IN  /\ t \in DOMAIN timers
        /\ timers[t].pc = "updated"
        /\ IF ok
               THEN /\ c \in exists
                    /\ exists' = exists \ {c}
                    /\ occ' = Del(occ, c)
                    /\ emptySince' = Del(emptySince, c)
                    /\ timers' = [timers EXCEPT ![t].pc = "delete"]
               ELSE /\ timers' = Del(timers, t)
                    /\ UNCHANGED <<exists, occ, emptySince>>
        /\ UNCHANGED <<now, categoryOk, cached, inTrigger, rec, lifetimeWrites,
                       temp_channels, deletion_tasks, user_cooldowns,
                       guild_rate_limits, jh, leaveWaiting, nextTimer, nextChannel,
                       delh, accepted, created, recon, orphans, config,
                       clock,
                       cancelled, sleepingAtStop, cfgVars, xpVars>>

\* the task resumes from channel.delete: lines 577-581
TimerCleanup(t) ==
    LET c == timers[t].ch
    IN  /\ t \in DOMAIN timers
        /\ timers[t].pc = "delete"
        /\ temp_channels' = Del(temp_channels, c)
        /\ deletion_tasks' = Del(deletion_tasks, c)
        /\ timers' = Del(timers, t)
        /\ UNCHANGED <<now, categoryOk, exists, cached, occ, inTrigger, rec,
                       lifetimeWrites, user_cooldowns, guild_rate_limits, jh,
                       leaveWaiting, nextTimer, nextChannel, delh, emptySince,
                       accepted, created, recon, orphans, config, clock,
                       cancelled, sleepingAtStop, cfgVars, xpVars>>

\* ------------------------------------------------------------ on_guild_channel_delete

\* an operator deletes a temp channel on the platform; its members are disconnected
OperatorDelete(c) ==
    /\ c \in exists
    /\ exists' = exists \ {c}
    /\ occ' = Del(occ, c)
    /\ emptySince' = Del(emptySince, c)
    /\ UNCHANGED <<now, categoryOk, cached, inTrigger, rec, lifetimeWrites,
                   temp_channels, deletion_tasks, user_cooldowns, guild_rate_limits,
                   jh, leaveWaiting, timers, nextTimer, nextChannel, delh, accepted,
                   created, recon, orphans, config, clock,
                       cancelled, sleepingAtStop, cfgVars, xpVars>>

\* the gateway reports the deletion of channel c (whoever deleted it): the cache
\* drops it, and on_guild_channel_delete runs to "await conn.execute(UPDATE"
ChannelDeleteEvent(c) ==
    /\ c \in cached \ exists
    /\ cached' = cached \ {c}
    /\ delh' = IF c \in DOMAIN temp_channels
                   THEN Put(delh, c, now - temp_channels[c])
                   ELSE delh
    /\ UNCHANGED <<now, categoryOk, exists, occ, inTrigger, rec, lifetimeWrites,
                   temp_channels, deletion_tasks, user_cooldowns, guild_rate_limits,
                   jh, leaveWaiting, timers, nextTimer, nextChannel, emptySince,
                   accepted, created, recon, orphans, config, clock,
                       cancelled, sleepingAtStop, cfgVars, xpVars>>

\* the UPDATE ... AND deleted_at IS NULL returns; lines 615-621
DeleteHandlerFinish(c) ==
    /\ c \in DOMAIN delh
    /\ IF c \in DOMAIN rec /\ rec[c].deleted_at = <<>>
           THEN /\ rec' = [rec EXCEPT ![c] = Finalized(@, delh[c])]
                /\ lifetimeWrites' = [lifetimeWrites EXCEPT ![c] = @ + 1]
           ELSE UNCHANGED <<rec, lifetimeWrites>>
    /\ temp_channels' = Del(temp_channels, c)
    /\ timers' = CancelStored(timers, deletion_tasks, c)
    /\ cancelled' = CancelledAfter(cancelled, timers, deletion_tasks, c)
    /\ deletion_tasks' = Del(deletion_tasks, c)
    /\ delh' = Del(delh, c)
    /\ UNCHANGED <<now, categoryOk, exists, cached, occ, inTrigger, user_cooldowns,
                   guild_rate_limits, jh, leaveWaiting, nextTimer, nextChannel,
                   emptySince, accepted, created, recon, orphans, config,
                   clock,
                       sleepingAtStop, cfgVars, xpVars>>

\* ------------------------------------------------------------ environment

\* the wall clock moves on to a later instant
Tick ==
    /\ \E t \in clock :
        /\ t > now
        /\ now' = t
        /\ accepted' = [g \in Guilds |-> InWindow(accepted[g], t)]
    /\ UNCHANGED <<categoryOk, exists, cached, occ, inTrigger, rec, lifetimeWrites,
                   temp_channels, deletion_tasks, user_cooldowns, guild_rate_limits,
                   jh, leaveWaiting, timers, nextTimer, nextChannel, delh, emptySince,
                   created, recon, orphans, config, clock,
                       cancelled, sleepingAtStop, cfgVars, xpVars>>

\* ------------------------------------------------------------ stop

\* stop(), lines 117-119: every task stored in deletion_tasks that is not done
\* is cancelled (the dict itself and the listeners stay as they are).  A
\* cancelled task takes no further step; a request it was awaiting is taken
\* not to have reached its server.
Stop ==
    LET stored == {deletion_tasks[c] : c \in DOMAIN deletion_tasks} \cap DOMAIN timers
    IN  /\ sleepingAtStop = <<>>
        /\ sleepingAtStop' = <<{t \in DOMAIN timers : timers[t].pc = "sleep"}>>
        /\ timers' = [t \in DOMAIN timers \ stored |-> timers[t]]
        /\ cancelled' = cancelled \cup stored
        /\ UNCHANGED <<now, categoryOk, exists, cached, occ, inTrigger, rec,
                       lifetimeWrites, temp_channels, deletion_tasks, user_cooldowns,
                       guild_rate_limits, jh, leaveWaiting, nextTimer, nextChannel,
                       delh, emptySince, accepted, created, recon, orphans, config,
                       clock, cfgVars, xpVars>>

\* ------------------------------------------------------------ cleanup_orphaned_channels

\* the guilds bot.get_guild finds
BotGuilds == {"g1"}

ReconDone == [pc |-> "done", todo |-> <<>>]

RECURSIVE LiveRowsRestamped(_)
LiveRowsRestamped(S) ==
    IF S = {} THEN <<>>
    ELSE LET c == CHOOSE x \in S : \A y \in S : x <= y
         IN  <<[guild_id |-> rec[c].guild, channel_id |-> c,
                created_at |-> now]>> \o LiveRowsRestamped(S \ {c})

RECURSIVE LiveRows(_)
\* the rows of "SELECT ... WHERE deleted_at IS NULL", by channel id
LiveRows(S) ==
    IF S = {} THEN <<>>
    ELSE LET c == CHOOSE x \in S : \A y \in S : x <= y
         IN  <<[guild_id |-> rec[c].guild, channel_id |-> c,
                created_at |-> rec[c].created_at]>> \o LiveRows(S \ {c})

\* the record after "SET deleted_at = NOW()" (lines 657-662 and 670-675)
MarkedUnchanged(r) == r

Marked(r) == [r EXCEPT !.deleted_at = <<now>>]

\* the SELECT of lines 638-643 returns
ReconFetch ==
    /\ recon.pc = "start"
    /\ recon' = [pc |-> "loop",
                 todo |-> LiveRows({c \in DOMAIN rec : rec[c].deleted_at = <<>>})]
    /\ UNCHANGED <<now, categoryOk, exists, cached, occ, inTrigger, rec, lifetimeWrites,
                   temp_channels, deletion_tasks, user_cooldowns, guild_rate_limits,
                   jh, leaveWaiting, timers, nextTimer, nextChannel, delh, emptySince,
                   accepted, created, orphans, config, clock,
                       cancelled, sleepingAtStop, cfgVars, xpVars>>

\* one record of the loop, lines 648-699, up to its first await; ok: the
\* channel.delete of line 683 takes effect on the platform, else it raises
ReconVisit(ok) ==
    LET row == Head(recon.todo)
        c == row.channel_id
        gone == row.guild_id \notin BotGuilds \/ c \notin cached
    IN  /\ recon.pc = "loop"
        /\ recon.todo # <<>>
        /\ IF gone
               THEN /\ ok
                    /\ recon' = [recon EXCEPT !.pc = "mark"]
                    /\ UNCHANGED <<exists, occ, emptySince, temp_channels>>
               ELSE IF Members(occ, c) = {}
                   THEN IF ok
                       THEN /\ c \in exists
                            /\ exists' = exists \ {c}
                            /\ occ' = Del(occ, c)
                            /\ emptySince' = Del(emptySince, c)
                            /\ recon' = [recon EXCEPT !.pc = "delete"]
                            /\ UNCHANGED temp_channels
                       ELSE /\ recon' = [recon EXCEPT !.todo = Tail(@)]
                            /\ UNCHANGED <<exists, occ, emptySince, temp_channels>>
                   ELSE /\ ok
                        /\ temp_channels' = Put(temp_channels, c, row.created_at)
                        /\ recon' = [recon EXCEPT !.todo = Tail(@)]
                        /\ UNCHANGED <<exists, occ, emptySince>>
        /\ UNCHANGED <<now, categoryOk, cached, inTrigger, rec, lifetimeWrites,
                       deletion_tasks, user_cooldowns, guild_rate_limits, jh,
                       leaveWaiting, timers, nextTimer, nextChannel, delh, accepted,
                       created, orphans, config, clock,
                       cancelled, sleepingAtStop, cfgVars, xpVars>>

\* the UPDATE of a record whose guild or channel is gone returns
ReconMark ==
    LET c == Head(recon.todo).channel_id
    IN  /\ recon.pc = "mark"
        /\ rec' = [rec EXCEPT ![c] = Marked(@)]
        /\ recon' = [pc |-> "loop", todo |-> Tail(recon.todo)]
        /\ UNCHANGED <<now, categoryOk, exists, cached, occ, inTrigger, lifetimeWrites,
                       temp_channels, deletion_tasks, user_cooldowns,
                       guild_rate_limits, jh, leaveWaiting, timers, nextTimer,
                       nextChannel, delh, emptySince, accepted, created, orphans,
                       config, clock,
                       cancelled, sleepingAtStop, cfgVars, xpVars>>

\* channel.delete returned: line 684, and the UPDATE of lines 685-692 returns
\* (ok) or raises into the "except Exception" of line 694
ReconDeleted(ok) ==
    LET row == Head(recon.todo)
        c == row.channel_id
    IN  /\ recon.pc = "delete"
        /\ IF ok
               THEN /\ rec' = [rec EXCEPT ![c] = Finalized(@, now - row.created_at)]
                    /\ lifetimeWrites' = [lifetimeWrites EXCEPT ![c] = @ + 1]
               ELSE UNCHANGED <<rec, lifetimeWrites>>
        /\ recon' = [pc |-> "loop", todo |-> Tail(recon.todo)]
        /\ UNCHANGED <<now, categoryOk, exists, cached, occ, inTrigger, temp_channels,
                       deletion_tasks, user_cooldowns, guild_rate_limits, jh,
                       leaveWaiting, timers, nextTimer, nextChannel, delh, emptySince,
                       accepted, created, orphans, config, clock,
                       cancelled, sleepingAtStop, cfgVars, xpVars>>

\* an UPDATE of lines 656-662 or 669-675 raises: cleanup_orphaned_channels
\* does not return
ReconRaise ==
    /\ recon.pc = "mark"
    /\ recon' = [recon EXCEPT !.pc = "raised"]
    /\ UNCHANGED <<now, categoryOk, exists, cached, occ, inTrigger, rec, lifetimeWrites,
                   temp_channels, deletion_tasks, user_cooldowns, guild_rate_limits,
                   jh, leaveWaiting, timers, nextTimer, nextChannel, delh, emptySince,
                   accepted, created, orphans, config, clock,
                       cancelled, sleepingAtStop, cfgVars, xpVars>>

\* the loop is over: line 701
ReconReturn ==
    /\ recon.pc = "loop"
    /\ recon.todo = <<>>
    /\ recon' = ReconDone
    /\ UNCHANGED <<now, categoryOk, exists, cached, occ, inTrigger, rec, lifetimeWrites,
                   temp_channels, deletion_tasks, user_cooldowns, guild_rate_limits,
                   jh, leaveWaiting, timers, nextTimer, nextChannel, delh, emptySince,
                   accepted, created, orphans, config, clock,
                       cancelled, sleepingAtStop, cfgVars, xpVars>>

\* ------------------------------------------------------------ configuration

\* "if guild_id in self.config_cache: ... if now - timestamp < self.CACHE_DURATION"
CacheHitInclusive(cache, g, t) ==
    g \in DOMAIN cache /\ t - cache[g].timestamp <= CACHE_DURATION

CacheHit(cache, g, t) ==
    g \in DOMAIN cache /\ t - cache[g].timestamp < CACHE_DURATION

\* the row "SELECT * ... WHERE guild_id = $1 AND enabled = TRUE" finds
EnabledRow(row) == IF row.enabled THEN <<row>> ELSE <<>>

\* get_guild_config answers from the cache (lines 145-148)
GetGuildConfigHit(g) ==
    /\ lookup.pc # "fetch"
    /\ CacheHit(config_cache, g, now)
    /\ lookup' = [pc |-> "returned", value |-> <<config_cache[g].config>>,
                  t |-> now]
    /\ UNCHANGED <<now, clock, config, config_cache, admin, lifeVars, xpVars>>

\* get_guild_config finds no fresh entry and awaits conn.fetchrow (lines
\* 150-156); the database evaluates the SELECT when it is issued
GetGuildConfigMiss(g) ==
    /\ lookup.pc # "fetch"
    /\ ~CacheHit(config_cache, g, now)
    /\ lookup' = [pc |-> "fetch", value |-> EnabledRow(config), t |-> now]
    /\ UNCHANGED <<now, clock, config, config_cache, admin, lifeVars, xpVars>>

\* conn.fetchrow returns (ok: lines 158-163) or raises (nothing catches it)
GetGuildConfigReturn(g, ok) ==
    /\ lookup.pc = "fetch"
    /\ IF ok
           THEN /\ lookup' = [lookup EXCEPT !.pc = "returned"]
                /\ config_cache' =
                       IF lookup.value # <<>>
                           THEN Put(config_cache, g,
                                    [config |-> lookup.value[1], timestamp |-> lookup.t])
                           ELSE config_cache
           ELSE /\ lookup' = [lookup EXCEPT !.pc = "raised", !.value = <<>>]
                /\ UNCHANGED config_cache
    /\ UNCHANGED <<now, clock, config, admin, lifeVars, xpVars>>

\* the validation of /v1-setup (lines 739-745)
ValidSetup(delay, cooldown) ==
    /\ 0 <= delay /\ delay <= MaxDeleteDelay
    /\ 0 <= cooldown /\ cooldown <= MaxUserCooldown

\* /v1-setup up to "await conn.execute(INSERT ... ON CONFLICT" (lines 739-776);
\* a rejected command returns at line 741 or 745
JtcSetup(g, delay, cooldown) ==
    /\ admin = "idle"
    /\ IF ValidSetup(delay, cooldown)
           THEN /\ config' = [config EXCEPT !.delete_delay_seconds = delay,
                                            !.user_cooldown_seconds = cooldown,
                                            !.enabled = TRUE]
                /\ admin' = "setup"
           ELSE UNCHANGED <<config, admin>>
    /\ UNCHANGED <<now, clock, config_cache, lookup, lifeVars, xpVars>>

\* /v2-disable up to "await conn.execute(UPDATE ... SET enabled = FALSE"
JtcDisable(g) ==
    /\ admin = "idle"
    /\ config' = [config EXCEPT !.enabled = FALSE]
    /\ admin' = "disable"
    /\ UNCHANGED <<now, clock, config_cache, lookup, lifeVars, xpVars>>

\* the statement of /v1-setup or /v2-disable returned:
\* self.invalidate_config_cache(interaction.guild.id) (lines 779 and 829)
AdminReturn(g) ==
    /\ admin # "idle"
    /\ config_cache' = Del(config_cache, g)
    /\ admin' = "idle"
    /\ UNCHANGED <<now, clock, config, lookup, lifeVars, xpVars>>

\* api_update_voice_config: the dashboard process upserts the fields it was
\* sent, converted by int() (lines 773-789)
DashboardUpdate(g, delay, cooldown) ==
    /\ config' = [config EXCEPT !.delete_delay_seconds = delay,
                                !.user_cooldown_seconds = cooldown]
    /\ UNCHANGED <<now, clock, cfgVars, lifeVars, xpVars>>

\* ------------------------------------------------------------ voice XP (level.py)

\* config['trigger_channel_id'], and a voice channel of the guild that
\* Join-to-Create has nothing to do with
TriggerChannelId == -1

RegularChannelId == -2

\* is_trigger_channel: "WHERE trigger_channel_id = $1 AND enabled = TRUE"
IsTriggerChannel(ch) == config.enabled /\ ch = TriggerChannelId

\* is_temp_channel: the in-memory index, then "WHERE channel_id = $1 AND
\* deleted_at IS NULL"
IsTempChannel(ch) ==
    \/ ch \in DOMAIN temp_channels
    \/ ch \in DOMAIN rec /\ rec[ch].deleted_at = <<>>

\* _award_voice_xp with jtc_manager set: the XP added for a session that
\* started at start in channel ch, for a member who has earned so far
XpToAdd(start, ch, earned) ==
    LET elapsed == now - start
        xp == (elapsed * XpPerMinute) \div 60
        room == VoiceXpLimit - earned
    IN  IF IsTriggerChannel(ch) \/ ~IsTempChannel(ch) THEN 0
        ELSE IF earned >= VoiceXpLimit \/ xp <= 0 THEN 0
        ELSE IF xp < room THEN xp ELSE room

\* a member connects to voice channel ch: LevelManager.on_voice_state_update,
\* "elif not is_active_before and is_active_after" (lines 468-470)
VoiceJoin(u, ch) ==
    /\ u \notin DOMAIN voiceAt
    /\ voiceAt' = Put(voiceAt, u, ch)
    /\ voice_sessions' = Put(voice_sessions, u, [start |-> now, channel |-> ch])
    /\ offTemp' = [offTemp EXCEPT ![u] = 0]
    /\ UNCHANGED <<now, clock, config, cfgVars, lifeVars, voice_xp>>

\* a member moves to another voice channel: active before and after, so
\* neither branch of lines 463-470 runs
VoiceMove(u, ch) ==
    /\ u \in DOMAIN voiceAt
    /\ voiceAt[u] # ch
    /\ voiceAt' = Put(voiceAt, u, ch)
    /\ UNCHANGED <<now, clock, config, cfgVars, lifeVars, voice_sessions,
                   voice_xp, offTemp>>

\* a member disconnects: lines 463-467 and _award_voice_xp
VoiceLeave(u) ==
    /\ u \in DOMAIN voiceAt
    /\ voiceAt' = Del(voiceAt, u)
    /\ voice_sessions' = Del(voice_sessions, u)
    /\ voice_xp' =
           IF u \in DOMAIN voice_sessions
               THEN [voice_xp EXCEPT ![u] = @ + XpToAdd(voice_sessions[u].start,
                                                       voice_sessions[u].channel, @)]
               ELSE voice_xp
    /\ UNCHANGED <<now, clock, config, cfgVars, lifeVars, offTemp>>

\* the wall clock moves on while members sit in voice; offTemp counts the
\* seconds of a session spent outside temp channels
VoiceTick ==
    /\ \E t \in clock :
        /\ t > now
        /\ now' = t
        /\ offTemp' = [u \in Users |->
                           IF u \in DOMAIN voiceAt /\ ~IsTempChannel(voiceAt[u])
                               THEN offTemp[u] + (t - now)
                               ELSE offTemp[u]]
    /\ UNCHANGED <<clock, config, cfgVars, lifeVars, voice_sessions, voiceAt,
                   voice_xp>>

\* ------------------------------------------------------------ specifications

DefaultConfig ==
    [user_cooldown_seconds |-> UserCooldown, delete_delay_seconds |-> DeleteDelay,
     enabled |-> TRUE]

IdleLookup == [pc |-> "idle", value |-> <<>>, t |-> 0]

\* the process right after __init__ (lines 79-89)
InitManager ==
    /\ inTrigger = EmptyDict
    /\ deletion_tasks = EmptyDict
    /\ jh = [u \in Users |-> IdleJoin]
    /\ leaveWaiting = [c \in Channels |-> 0]
    /\ timers = EmptyDict
    /\ nextTimer = 1
    /\ delh = EmptyDict
    /\ config = DefaultConfig
    /\ cancelled = {}
    /\ sleepingAtStop = <<>>
    /\ config_cache = EmptyDict
    /\ lookup = IdleLookup
    /\ admin = "idle"
    /\ voice_sessions = EmptyDict
    /\ voiceAt = EmptyDict
    /\ voice_xp = [u \in Users |-> 0]
    /\ offTemp = [u \in Users |-> 0]

\* the creation path: a process whose startup cleanup found no record
CreateClock == {0, 9, 10, 20}

\* the members who use the trigger channel
Creators == {"u1"}

CreateState(instants) ==
    /\ InitManager
    /\ now = 0
    /\ categoryOk = [g \in Guilds |-> TRUE]
    /\ exists = {}
    /\ cached = {}
    /\ occ = EmptyDict
    /\ rec = EmptyDict
    /\ lifetimeWrites = [c \in Channels |-> 0]
    /\ temp_channels = EmptyDict
    /\ user_cooldowns = EmptyDict
    /\ guild_rate_limits = EmptyDict
    /\ emptySince = EmptyDict
    /\ accepted = [g \in Guilds |-> <<>>]
    /\ created = EmptyDict
    /\ nextChannel = 1
    /\ recon = ReconDone
    /\ orphans = {}
    /\ clock = instants

InitCreate == CreateState(CreateClock)

NextCreate ==
    \/ \E u \in Creators, priv \in BOOLEAN, hit \in BOOLEAN :
            TriggerJoin("g1", u, priv, hit)
    \/ \E u \in Creators : CreateChannelOk(u)
    \/ \E u \in Creators, hit \in BOOLEAN : CreateChannelFail(u, hit)
    \/ \E u \in Creators : InsertOk(u)
    \/ \E u \in Creators, hit \in BOOLEAN : InsertFail(u, hit)
    \/ \E u \in Creators, hit \in BOOLEAN : MoveOk(u, hit)
    \/ \E u \in Creators, ok \in BOOLEAN, hit \in BOOLEAN : MoveFail(u, ok, hit)
    \/ \E u \in Creators, hit \in BOOLEAN : MoveRaise(u, hit)
    \/ \E u \in Creators, hit \in BOOLEAN : SendOk(u, hit)
    \/ \E u \in Creators, ok \in BOOLEAN, hit \in BOOLEAN : SendFail(u, ok, hit)
    \/ \E u \in Creators, hit \in BOOLEAN : RollbackReturn(u, hit)
    \/ \E u \in Creators : UserLeaveTrigger(u)
    \/ \E c \in Channels : ChannelDeleteEvent(c)
    \/ \E c \in Channels : DeleteHandlerFinish(c)
    \/ Tick

SpecCreate == InitCreate /\ [][NextCreate]_vars

\* the example of the design: the creator makes a channel, leaves it empty and
\* comes back to the trigger channel while its deletion task sleeps; every
\* platform call succeeds
ScenarioClock == {0, 5, 8, 12, 25}

InitScenario == CreateState(ScenarioClock)

NextScenario ==
    \/ \E u \in Creators, hit \in BOOLEAN : TriggerJoin("g1", u, FALSE, hit)
    \/ \E u \in Creators : CreateChannelOk(u)
    \/ \E u \in Creators : InsertOk(u)
    \/ \E u \in Creators, hit \in BOOLEAN : MoveOk(u, hit)
    \/ \E u \in Creators : UserLeaveTrigger(u)
    \/ \E u \in Creators, hit \in BOOLEAN : UserLeave(u, hit)
    \/ \E c \in Channels : LeaveResume(c)
    \/ \E t \in TimerIds : TimerWake(t)
    \/ \E t \in TimerIds : TimerDbApply(t)
    \/ \E t \in TimerIds : TimerDelete(t, TRUE)
    \/ \E t \in TimerIds : TimerCleanup(t)
    \/ \E c \in Channels : ChannelDeleteEvent(c)
    \/ \E c \in Channels : DeleteHandlerFinish(c)
    \/ Tick

SpecScenario == InitScenario /\ [][NextScenario]_vars

\* the emptying path: every user has created a channel at time 0 and is in it
LifeClock == {0, 10, 20, 30, 40}

Owner(c) == IF c = 1 THEN "u1" ELSE "u2"

LiveChannels == {1}

LifeState(cfg, instants) ==
    /\ categoryOk = [g \in Guilds |-> TRUE]
    /\ inTrigger = EmptyDict
    /\ lifetimeWrites = [c \in Channels |-> 0]
    /\ deletion_tasks = EmptyDict
    /\ jh = [u \in Users |->
                IF \E c \in LiveChannels : Owner(c) = u
                    THEN [IdleJoin EXCEPT !.moved = TRUE,
                            !.ch = <<CHOOSE c \in LiveChannels : Owner(c) = u>>]
                    ELSE IdleJoin]
    /\ leaveWaiting = [c \in Channels |-> 0]
    /\ timers = EmptyDict
    /\ nextTimer = 1
    /\ delh = EmptyDict
    /\ config = cfg
    /\ cancelled = {}
    /\ sleepingAtStop = <<>>
    /\ config_cache = EmptyDict
    /\ lookup = IdleLookup
    /\ admin = "idle"
    /\ voice_sessions = EmptyDict
    /\ voiceAt = EmptyDict
    /\ voice_xp = [u \in Users |-> 0]
    /\ offTemp = [u \in Users |-> 0]
    /\ now = 0
    /\ exists = LiveChannels
    /\ cached = LiveChannels
    /\ occ = [c \in LiveChannels |-> {Owner(c)}]
    /\ rec = [c \in LiveChannels |->
                 [guild |-> "g1", created_at |-> 0, deleted_at |-> <<>>,
                  lifetime |-> <<>>]]
    /\ temp_channels = [c \in LiveChannels |-> 0]
    /\ user_cooldowns = [k \in {<<"g1", Owner(c)>> : c \in LiveChannels} |-> 0]
    /\ guild_rate_limits = [g \in {"g1"} |-> [i \in LiveChannels |-> 0]]
    /\ emptySince = [c \in LiveChannels |-> 0]
    /\ accepted = [g \in Guilds |-> IF g = "g1" THEN [i \in LiveChannels |-> 0] ELSE <<>>]
    /\ created = [c \in LiveChannels |-> [user |-> Owner(c), guild |-> "g1", t0 |-> 0]]
    /\ nextChannel = Cardinality(LiveChannels) + 1
    /\ recon = ReconDone
    /\ orphans = {}
    /\ clock = instants

InitLife == LifeState(DefaultConfig, LifeClock)

NextLife ==
    \/ \E u \in Users, c \in Channels : UserJoinChannel(u, c)
    \/ \E u \in Users, hit \in BOOLEAN : UserLeave(u, hit)
    \/ \E c \in Channels : LeaveResume(c)
    \/ \E t \in TimerIds : TimerWake(t)
    \/ \E t \in TimerIds : TimerDbApply(t)
    \/ \E t \in TimerIds, ok \in BOOLEAN : TimerDelete(t, ok)
    \/ \E t \in TimerIds : TimerCleanup(t)
    \/ \E c \in Channels : OperatorDelete(c)
    \/ \E c \in Channels : ChannelDeleteEvent(c)
    \/ \E c \in Channels : DeleteHandlerFinish(c)
    \/ Tick

SpecLife == InitLife /\ [][NextLife]_vars

\* the emptying path of a process that is shut down at some point: the event
\* loop keeps running the tasks that are left while the bot closes
NextStop ==
    \/ NextLife
    \/ Stop

SpecStop == InitLife /\ [][NextStop]_vars

\* the startup path: the records a previous process left behind; the listeners
\* are registered before the cleanup runs (lines 99-106), members only leave
ReconClock == {10, 20, 30}

\* what the previous process left of a channel; "interrupted": its deletion
\* task was killed between the UPDATE of lines 565-571 and the channel.delete
\* of line 574, so the record is finalized and the channel is still there
Kinds == {"guild_gone", "channel_gone", "empty", "occupied", "closed",
          "interrupted"}

\* the kinds whose record the previous process finalized
Closed == {"closed", "interrupted"}

InitRecon ==
    /\ InitManager
    /\ now = 10
    /\ categoryOk = [g \in Guilds |-> TRUE]
    /\ \E kind \in [Channels -> Kinds] :
        LET here == {c \in Channels : kind[c] \in {"empty", "occupied", "interrupted"}}
        IN  /\ Cardinality({c \in Channels : c >= 2 /\ kind[c] = "occupied"}) <= 1
            /\ exists = here
            /\ cached = here
            /\ occ = [c \in here |-> IF kind[c] = "occupied" THEN {Owner(c)} ELSE {}]
            /\ emptySince = [c \in here |-> 0]
            /\ rec = [c \in Channels |->
                         [guild |-> IF kind[c] = "guild_gone" THEN "g2" ELSE "g1",
                          created_at |-> 0,
                          deleted_at |-> IF kind[c] \in Closed THEN <<5>> ELSE <<>>,
                          lifetime |-> IF kind[c] \in Closed THEN <<5>> ELSE <<>>]]
            /\ lifetimeWrites = [c \in Channels |-> IF kind[c] \in Closed THEN 1 ELSE 0]
            /\ orphans = {c \in Channels : kind[c] \in {"guild_gone", "channel_gone"}}
    /\ temp_channels = EmptyDict
    /\ user_cooldowns = EmptyDict
    /\ guild_rate_limits = EmptyDict
    /\ accepted = [g \in Guilds |-> <<>>]
    /\ created = EmptyDict
    /\ nextChannel = MaxChannels + 1
    /\ recon = [pc |-> "start", todo |-> <<>>]
    /\ clock = ReconClock

\* start() is called once, when the process is connected to the platform:
\* the gateway dispatches events to the listeners registered at lines 99-100
\* while start() is suspended at lines 103 and 106
WhileConnected ==
    \/ \E u \in Users, hit \in BOOLEAN : UserLeave(u, hit)
    \/ \E c \in Channels : LeaveResume(c)
    \/ \E t \in TimerIds : TimerWake(t)
    \/ \E t \in TimerIds : TimerDbApply(t)
    \/ \E t \in TimerIds, ok \in BOOLEAN : TimerDelete(t, ok)
    \/ \E t \in TimerIds : TimerCleanup(t)
    \/ \E c \in Channels : OperatorDelete(c)
    \/ \E c \in Channels : ChannelDeleteEvent(c)
    \/ \E c \in Channels : DeleteHandlerFinish(c)

NextRecon ==
    \/ ReconFetch
    \/ \E ok \in BOOLEAN : ReconVisit(ok)
    \/ ReconMark
    \/ \E ok \in BOOLEAN : ReconDeleted(ok)
    \/ ReconRaise
    \/ ReconReturn
    \/ WhileConnected
    \/ Tick

SpecRecon == InitRecon /\ [][NextRecon]_vars

\* the deletion tasks of one channel whose owner leaves and returns, with
\* every way a task is cancelled: a later leave, the channel's deletion by an
\* operator, and stop()
DelayClock == {0, 19, 20}

InitDelay == LifeState(DefaultConfig, DelayClock)

NextDelay ==
    \/ \E u \in Creators, c \in Channels : UserJoinChannel(u, c)
    \/ \E u \in Creators, hit \in BOOLEAN : UserLeave(u, hit)
    \/ \E c \in Channels : LeaveResume(c)
    \/ \E t \in TimerIds : TimerWake(t)
    \/ \E t \in TimerIds : TimerDbApply(t)
    \/ \E t \in TimerIds, ok \in BOOLEAN : TimerDelete(t, ok)
    \/ \E t \in TimerIds : TimerCleanup(t)
    \/ \E c \in Channels : OperatorDelete(c)
    \/ \E c \in Channels : ChannelDeleteEvent(c)
    \/ \E c \in Channels : DeleteHandlerFinish(c)
    \/ Stop
    \/ Tick

SpecDelay == InitDelay /\ [][NextDelay]_vars

\* the emptying path with a bot account (a music bot) among the members
Bots == {"bot"}

BotClock == {0, 20}

InitBot == LifeState(DefaultConfig, BotClock)

NextBot ==
    \/ \E b \in Bots, c \in Channels : BotJoinChannel(b, c)
    \/ \E b \in Bots : BotLeave(b)
    \/ \E u \in Creators, c \in Channels : UserJoinChannel(u, c)
    \/ \E u \in Creators, hit \in BOOLEAN : UserLeave(u, hit)
    \/ \E c \in Channels : LeaveResume(c)
    \/ \E t \in TimerIds : TimerWake(t)
    \/ \E t \in TimerIds : TimerDbApply(t)
    \/ \E t \in TimerIds, ok \in BOOLEAN : TimerDelete(t, ok)
    \/ \E t \in TimerIds : TimerCleanup(t)
    \/ Tick

SpecBot == InitBot /\ [][NextBot]_vars

\* the emptying path of a guild set up with "/v1-setup delete_delay:10" that an
\* administrator disables at some point; the joins of the trigger channel are
\* those after the disable (SpecCreate has the others)
ConfiguredDelay == 10

DisableClock == {0, 10, 20}

InitDisable ==
    LifeState([DefaultConfig EXCEPT !.delete_delay_seconds = ConfiguredDelay],
              DisableClock)

\* a member joins the trigger channel of a disabled guild
JoinWhileDisabled(g, u, hit) ==
    /\ ~config.enabled
    /\ TriggerJoin(g, u, FALSE, hit)

NextDisable ==
    \/ \E g \in BotGuilds : JtcDisable(g)
    \/ \E g \in BotGuilds : AdminReturn(g)
    \/ \E g \in BotGuilds, u \in Creators, hit \in BOOLEAN :
            JoinWhileDisabled(g, u, hit)
    \/ \E u \in Creators : UserLeaveTrigger(u)
    \/ \E u \in Creators, c \in Channels : UserJoinChannel(u, c)
    \/ \E u \in Creators, hit \in BOOLEAN : UserLeave(u, hit)
    \/ \E c \in Channels : LeaveResume(c)
    \/ \E t \in TimerIds : TimerWake(t)
    \/ \E t \in TimerIds : TimerDbApply(t)
    \/ \E t \in TimerIds, ok \in BOOLEAN : TimerDelete(t, ok)
    \/ \E t \in TimerIds : TimerCleanup(t)
    \/ Tick

SpecDisable == InitDisable /\ [][NextDisable]_vars

\* the same guild when, in addition, the storage may fail the lookup of
\* handle_temp_channel_leave
NextUnavailable ==
    \/ NextDisable
    \/ \E c \in Channels : LeaveResumeRaise(c)

SpecUnavailable == InitDisable /\ [][NextUnavailable]_vars

\* voice sessions with the manager attached to the leveling engine: temp
\* channel 1 is tracked and keeps its owner for the whole time, the other
\* member walks between it, the trigger channel and a regular channel
XpClock == {0, 30, 60, 120}

Movers == {"u2"}

VoiceChannels == LiveChannels \cup {TriggerChannelId, RegularChannelId}

InitXp == LifeState(DefaultConfig, XpClock)

NextXp ==
    \/ \E u \in Movers, ch \in VoiceChannels : VoiceJoin(u, ch)
    \/ \E u \in Movers, ch \in VoiceChannels : VoiceMove(u, ch)
    \/ \E u \in Movers : VoiceLeave(u)
    \/ VoiceTick

SpecXp == InitXp /\ [][NextXp]_vars

\* the configuration path: guild g1 was set up with the defaults, no channel
\* exists; the administrator and the dashboard rewrite the row while the
\* manager looks it up
ConfigClock == {0, 299, 300}

\* <<delete_delay, user_cooldown>> the administrator passes to /v1-setup
SetupInputs == {<<0, 0>>, <<300, 60>>, <<301, 10>>, <<20, 61>>, <<-1, 10>>}

\* <<delete_delay_seconds, user_cooldown_seconds>> posted to the dashboard API
DashboardInputs == {<<30, 10>>, <<301, 10>>, <<20, -1>>}

InitConfig ==
    /\ InitManager
    /\ now = 0
    /\ categoryOk = [g \in Guilds |-> TRUE]
    /\ exists = {}
    /\ cached = {}
    /\ occ = EmptyDict
    /\ rec = EmptyDict
    /\ lifetimeWrites = [c \in Channels |-> 0]
    /\ temp_channels = EmptyDict
    /\ user_cooldowns = EmptyDict
    /\ guild_rate_limits = EmptyDict
    /\ emptySince = EmptyDict
    /\ accepted = [g \in Guilds |-> <<>>]
    /\ created = EmptyDict
    /\ nextChannel = 1
    /\ recon = ReconDone
    /\ orphans = {}
    /\ clock = ConfigClock

NextConfig ==
    \/ \E g \in BotGuilds : GetGuildConfigHit(g)
    \/ \E g \in BotGuilds : GetGuildConfigMiss(g)
    \/ \E g \in BotGuilds, ok \in BOOLEAN : GetGuildConfigReturn(g, ok)
    \/ \E g \in BotGuilds, in \in SetupInputs : JtcSetup(g, in[1], in[2])
    \/ \E g \in BotGuilds : JtcDisable(g)
    \/ \E g \in BotGuilds : AdminReturn(g)
    \/ \E g \in BotGuilds, in \in DashboardInputs : DashboardUpdate(g, in[1], in[2])
    \/ Tick

SpecConfig == InitConfig /\ [][NextConfig]_vars

\* the same with the slash commands as the only writers of the row
NextCommands ==
    \/ \E g \in BotGuilds : GetGuildConfigHit(g)
    \/ \E g \in BotGuilds : GetGuildConfigMiss(g)
    \/ \E g \in BotGuilds, ok \in BOOLEAN : GetGuildConfigReturn(g, ok)
    \/ \E g \in BotGuilds, in \in SetupInputs : JtcSetup(g, in[1], in[2])
    \/ \E g \in BotGuilds : JtcDisable(g)
    \/ \E g \in BotGuilds : AdminReturn(g)
    \/ Tick

SpecCommands == InitConfig /\ [][NextCommands]_vars

\* the abuse guard alone: the configured category of every guild was deleted,
\* so that handle_trigger_join returns at line 390 at the latest
GuardClock == {0, 10, 20, 60}

InitGuard ==
    /\ InitManager
    /\ now = 0
    /\ categoryOk = [g \in Guilds |-> FALSE]
    /\ exists = {}
    /\ cached = {}
    /\ occ = EmptyDict
    /\ rec = EmptyDict
    /\ lifetimeWrites = [c \in Channels |-> 0]
    /\ temp_channels = EmptyDict
    /\ user_cooldowns = EmptyDict
    /\ guild_rate_limits = EmptyDict
    /\ emptySince = EmptyDict
    /\ accepted = [g \in Guilds |-> <<>>]
    /\ created = EmptyDict
    /\ nextChannel = 1
    /\ recon = ReconDone
    /\ orphans = {}
    /\ clock = GuardClock

NextGuard ==
    \/ \E g \in Guilds, u \in Users, priv \in BOOLEAN, hit \in BOOLEAN :
            TriggerJoin(g, u, priv, hit)
    \/ \E u \in Users : UserLeaveTrigger(u)
    \/ Tick

SpecGuard == InitGuard /\ [][NextGuard]_vars

\* the cooldown check under every cooldown: the dashboard rewrites
\* user_cooldown_seconds between the joins
CooldownInputs == {<<DeleteDelay, 0>>, <<DeleteDelay, UserCooldown>>}

NextCooldown ==
    \/ \E u \in Users, hit \in BOOLEAN : TriggerJoin("g1", u, FALSE, hit)
    \/ \E u \in Users : UserLeaveTrigger(u)
    \/ Tick
    \/ \E in \in CooldownInputs : DashboardUpdate("g1", in[1], in[2])

SpecCooldown == InitGuard /\ [][NextCooldown]_vars

\* the order of the checks: the creator joins the trigger channel again and
\* again while the dashboard switches the cooldown off and on, so that both
\* the cooldown and the rate limit reject joins
OrderClock == {0, 9, 10}

InitOrder == CreateState(OrderClock)

NextOrder ==
    \/ \E u \in Creators, priv \in BOOLEAN, hit \in BOOLEAN :
            TriggerJoin("g1", u, priv, hit)
    \/ \E u \in Creators : CreateChannelOk(u)
    \/ \E u \in Creators, hit \in BOOLEAN : CreateChannelFail(u, hit)
    \/ \E u \in Creators : InsertOk(u)
    \/ \E u \in Creators, hit \in BOOLEAN : MoveOk(u, hit)
    \/ \E u \in Creators, hit \in BOOLEAN : SendOk(u, hit)
    \/ \E u \in Creators : UserLeaveTrigger(u)
    \/ \E c \in Channels : LeaveResume(c)
    \/ \E in \in CooldownInputs : DashboardUpdate("g1", in[1], in[2])
    \/ Tick

SpecOrder == InitOrder /\ [][NextOrder]_vars

\* ------------------------------------------------------------ properties

\* C1: when handle_trigger_join returns after it created a channel, either the
\* channel exists on the platform, its record has deleted_at = null and the
\* user was moved in, or the channel does not exist and has no live record.
C1_NoDanglingChannel ==
    [][\A u \in Users :
         (jh[u].pc # "idle" /\ jh'[u].pc = "idle" /\ jh'[u].ch # <<>>) =>
             LET c == jh'[u].ch[1]
                 live == c \in DOMAIN rec' /\ rec'[c].deleted_at = <<>>
             IN  \/ c \in exists' /\ live /\ jh'[u].moved
                 \/ c \notin exists' /\ ~live]_vars

\* C2: at every instant at most one deletion task per channel is pending
\* (neither finished nor cancelled).
C2_OnePendingTimer ==
    \A t1 \in DOMAIN timers : \A t2 \in DOMAIN timers :
        timers[t1].ch = timers[t2].ch => t1 = t2

\* C3: a deletion task finalizes the record of an empty channel, or deletes an
\* empty channel, only when the channel has been empty for the whole delete
\* delay since it last became empty.
C3_FullDelayAfterReoccupation ==
    [][\A t \in TimerIds :
         (TimerDbApply(t) \/ TimerDelete(t, TRUE)) =>
             LET c == timers[t].ch
             IN  (c \in exists /\ occ[c] = {}) =>
                     now - emptySince[c] >= config.delete_delay_seconds]_vars

\* C4: a trigger join of a user creates a channel only if it comes at least
\* user_cooldown_seconds after the user's previous creating join in the guild,
\* and a join exactly user_cooldown_seconds after the creating join at T, the
\* first to pass the check since T, passes the cooldown check (the stamp moves
\* to the time of the join).
C4_CooldownMonotonic ==
    [][\A u \in Users :
        /\ \A c \in DOMAIN created' \ DOMAIN created :
               \A c0 \in DOMAIN created :
                   (created[c0].user = created'[c].user
                        /\ created[c0].guild = created'[c].guild) =>
                       created'[c].t0 - created[c0].t0 >= config.user_cooldown_seconds
        /\ \A g \in Guilds : \A c0 \in DOMAIN created :
               (/\ u \notin DOMAIN inTrigger
                /\ u \in DOMAIN inTrigger'
                /\ inTrigger'[u] = g
                /\ created[c0].user = u
                /\ created[c0].guild = g
                /\ user_cooldowns[<<g, u>>] = created[c0].t0
                /\ now = created[c0].t0 + config.user_cooldown_seconds) =>
                   user_cooldowns'[<<g, u>>] = now]_vars

\* C4, witness: one user created two channels in one guild, the second by a
\* join exactly user_cooldown_seconds after the first.
C4_Witness ==
    \E c1 \in DOMAIN created : \E c2 \in DOMAIN created :
        /\ created[c1].user = created[c2].user
        /\ created[c1].guild = created[c2].guild
        /\ created[c2].t0 = created[c1].t0 + config.user_cooldown_seconds

\* C5: the joins check_guild_rate_limit accepted for a guild within the
\* trailing window [now - 60, now] are never more than max_per_minute.
C5_RateWindow ==
    \A g \in Guilds : Len(InWindow(accepted[g], now)) <= MaxPerMinute

\* C6: once cleanup_orphaned_channels has returned, every record that was live
\* at startup with its guild or channel gone has deleted_at set, and its
\* channel id is a key of neither temp_channels nor deletion_tasks.
C6_OrphansClosed ==
    recon.pc = "done" =>
        \A c \in orphans :
            /\ rec[c].deleted_at # <<>>
            /\ c \notin DOMAIN temp_channels
            /\ c \notin DOMAIN deletion_tasks

\* C6, witness: the cleanup has returned and there were orphans of both kinds,
\* one whose guild is gone and one whose channel is gone.
C6_Witness ==
    /\ recon.pc = "done"
    /\ \E c1 \in orphans : rec[c1].guild \notin BotGuilds
    /\ \E c2 \in orphans : rec[c2].guild \in BotGuilds

\* C7: every finalized record holds total_lifetime_seconds = deleted_at -
\* created_at, written exactly once.
C7_LifetimeAccounting ==
    \A c \in DOMAIN rec :
        rec[c].deleted_at # <<>> =>
            /\ rec[c].lifetime = <<rec[c].deleted_at[1] - rec[c].created_at>>
            /\ lifetimeWrites[c] = 1

\* C8: once deleted_at of a record is set, no step changes its deleted_at or
\* its total_lifetime_seconds.
C8_FinalizedIsTerminal ==
    [][\A c \in DOMAIN rec :
         rec[c].deleted_at # <<>> =>
             /\ rec'[c].deleted_at = rec[c].deleted_at
             /\ rec'[c].lifetime = rec[c].lifetime]_vars

\* C9: a trigger join rejected by the cooldown check or by the rate-limit check
\* leaves user_cooldowns, the guild's rate window, temp_channels,
\* deletion_tasks, the records and the platform's channels as they were.
C9_RejectionLeavesNoState ==
    [][\A g \in Guilds, u \in Users, hit \in BOOLEAN :
         (TriggerJoin(g, u, FALSE, hit) /\ JoinResult(g, u) \in {"cooldown", "rate"}) =>
             /\ user_cooldowns' = user_cooldowns
             /\ RatePurged(guild_rate_limits', g, now) = RatePurged(guild_rate_limits, g, now)
             /\ UNCHANGED <<temp_channels, deletion_tasks, rec, exists>>]_vars

\* C10: no deletion task issues channel.delete for a channel whose deletion the
\* platform has already reported.
C10_NoDeleteAfterManualDeletion ==
    [][\A t \in TimerIds, ok \in BOOLEAN :
         TimerDelete(t, ok) => timers[t].ch \in cached]_vars

\* C11: after stop() was called, no deletion task that was asleep at that
\* moment finalizes a record or deletes a channel.
C11_StopCancelsSleeping ==
    [][\A t \in TimerIds :
         (sleepingAtStop # <<>> /\ t \in sleepingAtStop[1]) =>
             ~(TimerDbApply(t) \/ TimerDelete(t, TRUE))]_vars

\* C12: when cleanup_orphaned_channels returns, no temp channel is on the
\* platform whose record is finalized, and no record is live whose channel is
\* gone, whatever the previous process left behind.
C12_ReconRepairsInterrupted ==
    [][ReconReturn =>
         \A c \in DOMAIN rec :
             /\ c \in exists => rec[c].deleted_at = <<>>
             /\ rec[c].deleted_at = <<>> => c \in exists]_vars

\* C13: no on_voice_state_update or on_guild_channel_delete handler executes
\* before cleanup_orphaned_channels has returned, and the cleanup starts once.
C13_ReconBeforeEvents ==
    [][/\ \A u \in Users, hit \in BOOLEAN : UserLeave(u, hit) => recon.pc = "done"
       /\ \A c \in Channels :
              (LeaveResume(c) \/ ChannelDeleteEvent(c) \/ DeleteHandlerFinish(c)) =>
                  recon.pc = "done"
       /\ ReconFetch => recon.pc = "start" /\ recon'.pc # "start"]_vars

\* C14: when /v1-setup or the dashboard API has updated the configuration of
\* a guild, the guild has no cache entry, and a lookup answered from the cache
\* while no command is in flight returns the stored row.
C14_UpdateInvalidatesCache ==
    [][\A g \in BotGuilds :
         /\ (\/ admin = "setup" /\ AdminReturn(g)
             \/ \E in \in DashboardInputs : DashboardUpdate(g, in[1], in[2])) =>
                g \notin DOMAIN config_cache'
         /\ (GetGuildConfigHit(g) /\ admin = "idle") =>
                lookup'.value = EnabledRow(config)]_vars

\* C15: when the storage read of get_guild_config fails, the call returns the
\* cached value if the guild has one, however old, and raises only if it has
\* none.
C15_FailedReadFallsBack ==
    [][\A g \in BotGuilds :
         GetGuildConfigReturn(g, FALSE) =>
             IF g \in DOMAIN config_cache
                 THEN /\ lookup'.pc = "returned"
                      /\ lookup'.value = <<config_cache[g].config>>
                 ELSE lookup'.pc = "raised"]_vars

\* C16: the stored row always has 0 <= delete_delay_seconds <= 300 and
\* 0 <= user_cooldown_seconds <= 60, and a rejected /v1-setup leaves the row
\* as it was.
C16_BoundsAtEveryWrite ==
    [][/\ ValidSetup(config'.delete_delay_seconds, config'.user_cooldown_seconds)
       /\ \A g \in BotGuilds, in \in SetupInputs :
              (JtcSetup(g, in[1], in[2]) /\ ~ValidSetup(in[1], in[2])) =>
                  config' = config]_vars

\* C17: once /v2-disable has disabled the guild, no join of the trigger
\* channel starts a channel creation, the command leaves temp_channels as it
\* was, and a deletion task started for a channel that became empty sleeps
\* the delete delay the row was configured with.
C17_DisableKeepsDelay ==
    [][/\ \A u \in Users, hit \in BOOLEAN :
              JoinWhileDisabled("g1", u, hit) =>
                  jh'[u].pc = "idle" /\ nextChannel' = nextChannel
       /\ (JtcDisable("g1") \/ AdminReturn("g1")) => UNCHANGED temp_channels
       /\ \A t \in DOMAIN timers' \ DOMAIN timers :
              timers'[t].d = config.delete_delay_seconds]_vars

\* C18: with the manager attached, the XP a voice session earns is at most
\* the XP of the time the member spent in temp channels: the seconds spent in
\* the trigger channel or in a non-temp channel earn nothing.
C18_NoXpOutsideTempChannels ==
    [][\A u \in Users :
         u \in DOMAIN voice_sessions =>
             voice_xp'[u] - voice_xp[u] <=
                 (((now - voice_sessions[u].start) - offTemp[u]) * XpPerMinute) \div 60]_vars

\* C19: a deletion task created at T with delay d takes a step of its body
\* (occupancy check, record update, platform delete, in-memory cleanup) only
\* at T + d or later and only if it was not cancelled; a cancelled task is no
\* longer running.
C19_FiresAfterDelayOrNever ==
    [][/\ \A t \in TimerIds : \A ok \in BOOLEAN :
              (TimerWake(t) \/ TimerDbApply(t) \/ TimerDelete(t, ok)
                   \/ TimerCleanup(t)) =>
                  /\ now >= timers[t].t0 + timers[t].d
                  /\ t \notin cancelled
       /\ \A t \in cancelled' : t \notin DOMAIN timers']_vars

\* C19, witness: one task was cancelled, and a later task of the same channel
\* has run its body down to channel.delete, no earlier than its T + d.
C19_Witness ==
    /\ cancelled # {}
    /\ \E t \in DOMAIN timers :
           /\ timers[t].pc = "delete"
           /\ now >= timers[t].t0 + timers[t].d
           /\ \E t0 \in cancelled : t0 < t

\* C20: when the last member of a tracked temp channel leaves, whoever it is,
\* then once the event is handled (the handler has returned or is suspended
\* in its configuration lookup) a deletion task is pending for the channel.
C20_EmptyingStartsTimer ==
    [][\A c \in DOMAIN temp_channels :
         (c \in DOMAIN occ /\ occ[c] # {} /\ c \in DOMAIN occ' /\ occ'[c] = {}) =>
             \/ leaveWaiting'[c] > 0
             \/ c \in DOMAIN deletion_tasks' /\ deletion_tasks'[c] \in DOMAIN timers']_vars

\* the example: u1 created channel 1 by the trigger join at 0 and left it
\* empty at 5, so the deletion task of channel 1 sleeps since 5
Scenario ==
    /\ 1 \in DOMAIN created
    /\ created[1] = [user |-> "u1", guild |-> "g1", t0 |-> 0]
    /\ 1 \in DOMAIN occ /\ occ[1] = {}
    /\ 1 \in DOMAIN deletion_tasks
    /\ deletion_tasks[1] \in DOMAIN timers
    /\ timers[deletion_tasks[1]].pc = "sleep"
    /\ timers[deletion_tasks[1]].t0 = 5
    /\ timers[deletion_tasks[1]].d = DeleteDelay

\* C21: in the example (delete delay 20, cooldown 10) the creator's join of
\* the trigger channel at 8 starts no creation, the join at 12 (the last
\* recorded creation still being the one at 0) starts one,
\* the channel it gets is a new one, and neither join cancels or restarts the
\* deletion task of the first channel.
C21_ScenarioAcceptance ==
    [][/\ \A hit \in BOOLEAN :
              (/\ Scenario
               /\ user_cooldowns[<<"g1", "u1">>] = 0
               /\ TriggerJoin("g1", "u1", FALSE, hit)) =>
                  /\ UNCHANGED <<timers, deletion_tasks, cancelled>>
                  /\ now = 8 => jh'["u1"].pc = "idle" /\ UNCHANGED user_cooldowns
                  /\ now = 12 => jh'["u1"].pc = "create"
       /\ (Scenario /\ CreateChannelOk("u1")) =>
              /\ DOMAIN created' = DOMAIN created \cup {nextChannel}
              /\ nextChannel # 1
              /\ UNCHANGED <<timers, deletion_tasks, cancelled>>]_vars

\* C21, witness: the second channel was created by the join at 12 while the
\* deletion task of the first channel, started at 5, still sleeps.
C21_Witness ==
    /\ Scenario
    /\ 2 \in DOMAIN created
    /\ created[2] = [user |-> "u1", guild |-> "g1", t0 |-> 12]
    /\ 2 \in exists

\* the deletion task of the example: the one started for channel 1 at 5
ScenarioTimer(t) ==
    /\ t \in DOMAIN timers
    /\ timers[t].ch = 1 /\ timers[t].t0 = 5 /\ timers[t].d = DeleteDelay
    /\ 1 \in DOMAIN temp_channels /\ temp_channels[1] = 0
    /\ 1 \in DOMAIN occ /\ occ[1] = {}

\* the deletion task of the example wakes at 25, finalizes the record of
\* channel 1 with the given lifetime and deletes the channel
ScenarioFinal(life) ==
    \A t \in TimerIds :
        /\ (ScenarioTimer(t) /\ TimerWake(t)) =>
               now = 25 /\ t \in DOMAIN timers' /\ timers'[t].pc = "update"
        /\ (ScenarioTimer(t) /\ TimerDbApply(t)) =>
               /\ rec'[1].deleted_at = <<25>>
               /\ rec'[1].lifetime = <<life>>
        /\ (ScenarioTimer(t) /\ TimerDelete(t, TRUE)) => 1 \notin exists'

\* C22: in the example the deletion task of the first channel fires at 25
\* while the channel is still empty, deletes it and sets
\* total_lifetime_seconds = 20 on its record.
C22_ScenarioLifetime == [][ScenarioFinal(20)]_vars

\* C22, amended: the same with total_lifetime_seconds = 25, the time from the
\* creation at 0 to the finalization at 25.
C22_ScenarioLifetimeFromCreation == [][ScenarioFinal(25)]_vars

\* C22, witness: the first channel is gone from the platform and its record
\* was finalized at 25 by the task started at 5.
C22_Witness ==
    /\ 1 \in DOMAIN temp_channels /\ temp_channels[1] = 0
    /\ 1 \notin exists
    /\ 1 \in DOMAIN rec /\ rec[1].deleted_at = <<25>> /\ Len(rec[1].lifetime) = 1
    /\ \E t \in DOMAIN timers : timers[t].ch = 1 /\ timers[t].t0 = 5

\* C23: get_guild_config answers from the cache only when the entry was
\* fetched strictly less than 300 seconds before the call; otherwise it reads
\* the enabled row from storage, caches a row it found under the time of the
\* call, and returns None when there is none; so the value of a call at time
\* t was read from storage at t - 300 or later.
C23_CacheFreshness ==
    [][\A g \in BotGuilds :
         /\ GetGuildConfigHit(g) =>
                /\ now - config_cache[g].timestamp < CACHE_DURATION
                /\ lookup'.value = <<config_cache[g].config>>
         /\ (/\ lookup.pc # "fetch" /\ lookup' # lookup
             /\ g \in DOMAIN config_cache
                 => now - config_cache[g].timestamp >= CACHE_DURATION) =>
                /\ lookup'.pc = "fetch"
                /\ lookup'.value = EnabledRow(config)
                /\ lookup'.t = now
         /\ GetGuildConfigReturn(g, TRUE) =>
                /\ lookup'.value = lookup.value
                /\ IF lookup.value = <<>>
                       THEN UNCHANGED config_cache
                       ELSE /\ g \in DOMAIN config_cache'
                            /\ config_cache'[g] = [config |-> lookup.value[1],
                                                   timestamp |-> lookup.t]
         /\ g \in DOMAIN config_cache' => config_cache'[g].timestamp <= now']_vars

\* C23, witness: a call 299 seconds after the fetch was answered from the
\* cache.
C23_Witness ==
    /\ lookup.pc = "returned" /\ lookup.t = 299
    /\ "g1" \in DOMAIN config_cache
    /\ config_cache["g1"].timestamp = 0
    /\ lookup.value = <<config_cache["g1"].config>>

\* C24: check_user_cooldown returns False and leaves user_cooldowns as it was
\* when the last creation recorded for (guild, user) is less than
\* cooldown_seconds before now; otherwise it records now and returns True;
\* with a cooldown of 0 it returns True in every state.
C24_CooldownCheck ==
    [][\A g \in Guilds, u \in Users, hit \in BOOLEAN :
         TriggerJoin(g, u, FALSE, hit) =>
             LET key == <<g, u>>
                 cd == config.user_cooldown_seconds
             IN  /\ IF key \in DOMAIN user_cooldowns /\ now - user_cooldowns[key] < cd
                        THEN /\ JoinResult(g, u) = "cooldown"
                             /\ UNCHANGED user_cooldowns
                        ELSE /\ JoinResult(g, u) # "cooldown"
                             /\ user_cooldowns' = Put(user_cooldowns, key, now)
                 /\ cd = 0 => JoinResult(g, u) # "cooldown"]_vars

\* C24, witness: with a cooldown of 0 a join at the instant of the recorded
\* creation passed the check a second time, and the rate window of the guild
\* holds both.
C24_Witness ==
    /\ config.user_cooldown_seconds = 0
    /\ <<"g1", "u1">> \in DOMAIN user_cooldowns
    /\ user_cooldowns[<<"g1", "u1">>] = now
    /\ "g1" \in DOMAIN guild_rate_limits
    /\ Len(SelectSeq(guild_rate_limits["g1"], LAMBDA ts : ts = now)) >= 2

\* C25: handle_trigger_join evaluates the cooldown check first and the rate
\* limit second, and starts the create-channel call only when both accepted;
\* a join either check rejects starts no create, move or send call and ends
\* the handler without an error.
C25_ChecksBeforeCreate ==
    [][\A g \in Guilds, u \in Users, priv \in BOOLEAN, hit \in BOOLEAN :
         TriggerJoin(g, u, priv, hit) =>
             LET key == <<g, u>>
                 onCooldown ==
                     /\ key \in DOMAIN user_cooldowns
                     /\ now - user_cooldowns[key] < config.user_cooldown_seconds
                 inWindow ==
                     IF g \in DOMAIN guild_rate_limits
                         THEN SelectSeq(guild_rate_limits[g],
                                        LAMBDA ts : ts > now - RateWindow)
                         ELSE <<>>
                 overLimit == Len(inWindow) >= MaxPerMinute
             IN  /\ onCooldown =>
                        UNCHANGED <<guild_rate_limits, jh, nextChannel, exists>>
                 /\ (~onCooldown /\ overLimit) =>
                        /\ user_cooldowns'[key] = now
                        /\ UNCHANGED <<jh, nextChannel, exists>>
                 /\ jh' # jh =>
                        /\ ~onCooldown /\ ~overLimit
                        /\ jh[u].pc = "idle" /\ jh'[u].pc = "create"]_vars

\* C25, witness: the join at 9 passed the cooldown check (its time is the
\* stamp) and was rejected by the rate limit (its time is not in the full
\* window); no handler is running.
C25_Witness ==
    /\ <<"g1", "u1">> \in DOMAIN user_cooldowns
    /\ user_cooldowns[<<"g1", "u1">>] = 9
    /\ "g1" \in DOMAIN guild_rate_limits
    /\ Len(guild_rate_limits["g1"]) = MaxPerMinute
    /\ \A i \in 1..Len(guild_rate_limits["g1"]) : guild_rate_limits["g1"][i] # 9
    /\ "u1" \in DOMAIN inTrigger
    /\ jh["u1"].pc = "idle"

\* C26: when member.move_to failed, the channel just created is gone from the
\* platform and its id is no key of temp_channels when handle_trigger_join
\* returns.
C26_MoveFailureRollsBack ==
    [][\A u \in Users, hit \in BOOLEAN :
         (\/ MoveRaise(u, hit)
          \/ \E ok \in BOOLEAN : MoveFail(u, ok, hit) /\ jh'[u].pc = "idle"
          \/ RollbackReturn(u, hit) /\ ~jh[u].moved) =>
             /\ jh[u].ch[1] \notin exists'
             /\ jh[u].ch[1] \notin DOMAIN temp_channels']_vars

\* C27: a trigger join that finds the configured category missing starts no
\* create-channel call and leaves temp_channels, the records, user_cooldowns
\* and the rate window of the guild as they were before the join.
C27_MissingCategoryLeavesNoState ==
    [][\A g \in Guilds, u \in Users, priv \in BOOLEAN, hit \in BOOLEAN :
         (TriggerJoin(g, u, priv, hit) /\ JoinResult(g, u) = "category") =>
             /\ UNCHANGED <<jh, nextChannel, exists>>
             /\ UNCHANGED <<temp_channels, rec, user_cooldowns>>
             /\ RatePurged(guild_rate_limits', g, now)
                    = RatePurged(guild_rate_limits, g, now)]_vars

\* C28: a deletion task that wakes after its delay and finds a member in the
\* channel ends there: the record is not updated, no platform delete is
\* issued, and temp_channels and deletion_tasks are as they were.
C28_OccupiedWakeIsNoop ==
    [][\A t \in TimerIds :
         (/\ TimerWake(t)
          /\ timers[t].ch \in cached
          /\ timers[t].ch \in DOMAIN occ
          /\ occ[timers[t].ch] # {}) =>
             /\ t \notin DOMAIN timers'
             /\ UNCHANGED <<rec, lifetimeWrites, exists, cached, occ>>
             /\ UNCHANGED <<temp_channels, deletion_tasks>>]_vars

\* C28, witness: the task stored for an occupied channel has ended without
\* being cancelled, after the delay; the channel exists, is tracked and its
\* record is live.
C28_Witness ==
    \E c \in DOMAIN deletion_tasks :
        /\ deletion_tasks[c] \notin DOMAIN timers
        /\ deletion_tasks[c] \notin cancelled
        /\ c \in exists /\ occ[c] # {}
        /\ c \in DOMAIN temp_channels
        /\ rec[c].deleted_at = <<>>
        /\ now >= DeleteDelay

\* C29: cleanup_orphaned_channels, at a live record whose channel exists: an
\* empty channel is deleted on the platform, its record is finalized with
\* total_lifetime_seconds = now - created_at, and it is not added to
\* temp_channels; an occupied channel is added to temp_channels under the
\* created_at of its record, its record stays live and no deletion task is
\* started.
C29_ReconExistingChannel ==
    [][/\ \A ok \in BOOLEAN :
              ReconVisit(ok) =>
                  LET c == Head(recon.todo).channel_id
                  IN  (rec[c].guild \in BotGuilds /\ c \in exists) =>
                          IF occ[c] = {}
                              THEN /\ ok => c \notin exists' /\ recon'.pc = "delete"
                                   /\ c \notin DOMAIN temp_channels'
                                   /\ UNCHANGED <<timers, deletion_tasks>>
                              ELSE /\ c \in DOMAIN temp_channels'
                                   /\ temp_channels'[c] = rec[c].created_at
                                   /\ c \in exists'
                                   /\ UNCHANGED <<rec, timers, deletion_tasks>>
       /\ ReconDeleted(TRUE) =>
              LET c == Head(recon.todo).channel_id
              IN  /\ rec'[c].deleted_at = <<now>>
                  /\ rec'[c].lifetime = <<now - rec[c].created_at>>
                  /\ c \notin exists'
                  /\ c \notin DOMAIN temp_channels']_vars

\* C29, witness: the cleanup has returned; it deleted an empty channel and
\* finalized its record with the lifetime since creation, and it resumed the
\* tracking of an occupied channel under the created_at of its record.
C29_Witness ==
    /\ recon.pc = "done"
    /\ \E c1 \in DOMAIN rec :
           /\ c1 \notin orphans /\ c1 \notin exists
           /\ c1 \notin DOMAIN temp_channels
           /\ rec[c1].deleted_at = <<20>>
           /\ rec[c1].lifetime = <<20 - rec[c1].created_at>>
    /\ \E c2 \in DOMAIN temp_channels :
           /\ c2 \in exists /\ occ[c2] # {}
           /\ temp_channels[c2] = rec[c2].created_at
           /\ rec[c2].deleted_at = <<>>
           /\ c2 \notin DOMAIN deletion_tasks

\* C30: when a tracked channel became empty and the configuration of the
\* guild is unavailable (no enabled row, or the lookup fails),
\* handle_temp_channel_leave still starts a deletion task, with the default
\* delay of 20 seconds.
C30_UnavailableConfigDefaultDelay ==
    [][\A c \in Channels :
         (\/ LeaveResume(c) /\ ~config.enabled
          \/ LeaveResumeRaise(c)) =>
             /\ c \in DOMAIN deletion_tasks'
             /\ deletion_tasks'[c] \in DOMAIN timers' \ DOMAIN timers
             /\ timers'[deletion_tasks'[c]].d = DeleteDelay]_vars

\* no handler, deletion-task body or cleanup is between two of its awaits (a
\* task asleep in asyncio.sleep has not started its body)
Quiescent ==
    /\ \A u \in Users : jh[u].pc = "idle"
    /\ \A c \in Channels : leaveWaiting[c] = 0
    /\ \A t \in DOMAIN timers : timers[t].pc = "sleep"
    /\ delh = EmptyDict
    /\ cached = exists
    /\ recon.pc = "done"

\* C31: whenever no operation is in flight, a channel whose record has
\* deleted_at set is a key of neither temp_channels nor deletion_tasks.
C31_FinalizedIsUntracked ==
    Quiescent =>
        \A c \in DOMAIN rec :
            rec[c].deleted_at # <<>> =>
                /\ c \notin DOMAIN temp_channels
                /\ c \notin DOMAIN deletion_tasks

\* C32: handle_trigger_join deletes the channel it created only when
\* member.move_to failed: a channel its creator was moved into is not deleted
\* by the handler, also when temp_channel.send fails after the move.
C32_RollbackOnlyOnMoveFailure ==
    [][\A u \in Users, ok \in BOOLEAN, hit \in BOOLEAN :
         (MoveFail(u, ok, hit) \/ SendFail(u, ok, hit)) =>
             (jh[u].ch[1] \in exists \ exists' => ~jh[u].moved)]_vars

\* C33: a deletion task issues channel.delete only for a channel that has no
\* member at that moment, also when a member joined while the task was
\* suspended at its UPDATE.
C33_NoDeleteOfOccupiedChannel ==
    [][\A t \in TimerIds, ok \in BOOLEAN :
         TimerDelete(t, ok) =>
             (timers[t].ch \in DOMAIN occ => occ[timers[t].ch] = {})]_vars

\* C34: once cleanup_orphaned_channels has returned and no operation is in
\* flight, the channel of every record with deleted_at = null is a key of
\* temp_channels.
C34_LiveRecordsAreTracked ==
    Quiescent =>
        \A c \in DOMAIN rec :
            rec[c].deleted_at = <<>> => c \in DOMAIN temp_channels

\* C35: once /v1-setup or /v2-disable has completed (its
\* invalidate_config_cache has run), no get_guild_config answers from the
\* cache with a row read before the write, whatever lookup was in flight
\* during the command.
C35_NoStaleInstallAfterInvalidate ==
    [][\A g \in BotGuilds :
         (GetGuildConfigHit(g) /\ admin = "idle") =>
             lookup'.value = EnabledRow(config)]_vars

\* C36: while no handle_trigger_join is running, every entry of
\* user_cooldowns and every timestamp of a guild's rate list is the time of a
\* trigger join for which a channel was created.
C36_LimitsConsumedByCreationsOnly ==
    (\A u \in Users : jh[u].pc = "idle") =>
        /\ \A key \in DOMAIN user_cooldowns :
               \E c \in DOMAIN created :
                   /\ created[c].guild = key[1]
                   /\ created[c].user = key[2]
                   /\ created[c].t0 = user_cooldowns[key]
        /\ \A g \in DOMAIN guild_rate_limits :
               \A i \in 1..Len(guild_rate_limits[g]) :
                   \E c \in DOMAIN created :
                       /\ created[c].guild = g
                       /\ created[c].t0 = guild_rate_limits[g][i]

\* C37: a trigger join of user u in guild g changes no entry of
\* user_cooldowns but that of (g, u) and no rate list but that of g; what a
\* join in another guild would be answered, and what the cooldown check of
\* another user of g would return, is the same after it as before.
C37_LimitsIsolated ==
    [][\A g \in Guilds, u \in Users, priv \in BOOLEAN, hit \in BOOLEAN :
         TriggerJoin(g, u, priv, hit) =>
             /\ \A key \in (DOMAIN user_cooldowns \cup DOMAIN user_cooldowns')
                               \ {<<g, u>>} :
                    /\ key \in DOMAIN user_cooldowns
                    /\ key \in DOMAIN user_cooldowns'
                    /\ user_cooldowns'[key] = user_cooldowns[key]
             /\ \A g2 \in (DOMAIN guild_rate_limits \cup DOMAIN guild_rate_limits')
                              \ {g} :
                    /\ g2 \in DOMAIN guild_rate_limits
                    /\ g2 \in DOMAIN guild_rate_limits'
                    /\ guild_rate_limits'[g2] = guild_rate_limits[g2]
             /\ \A g2 \in Guilds \ {g}, u2 \in Users :
                    JoinResult(g2, u2)' = JoinResult(g2, u2)
             /\ \A u2 \in Users \ {u} :
                    CooldownPasses(user_cooldowns', g, u2,
                                   config.user_cooldown_seconds, now)
                        = CooldownPasses(user_cooldowns, g, u2,
                                         config.user_cooldown_seconds, now)]_vars

\* C37, witness: both members have joined the trigger channel of g1 and one
\* of them that of g2; the entries of user_cooldowns and the two rate lists
\* hold the times of their own joins only.
C37_Witness ==
    /\ DOMAIN user_cooldowns = {<<"g1", "u1">>, <<"g1", "u2">>, <<"g2", "u1">>}
    /\ user_cooldowns[<<"g1", "u1">>] = 10
    /\ user_cooldowns[<<"g1", "u2">>] = 0
    /\ user_cooldowns[<<"g2", "u1">>] = 0
    /\ guild_rate_limits["g1"] = <<0, 0, 10>>
    /\ guild_rate_limits["g2"] = <<0>>

\* C38: when on_guild_channel_delete handles the deletion of a channel whose
\* record the deletion task has already finalized, the record keeps its
\* deleted_at and its total_lifetime_seconds, and when the handler returns the
\* channel id is in neither temp_channels nor deletion_tasks; the same holds
\* when the event arrives after the task has done its own clean-up (the
\* condition of line 600 is false and the handler touches nothing).
C38_TimerDeleteEventKeepsRecord ==
    [][\A c \in Channels :
         /\ (DeleteHandlerFinish(c) /\ c \in DOMAIN rec /\ rec[c].deleted_at # <<>>) =>
                /\ rec'[c] = rec[c]
                /\ lifetimeWrites'[c] = lifetimeWrites[c]
                /\ c \notin DOMAIN temp_channels'
                /\ c \notin DOMAIN deletion_tasks'
         /\ (ChannelDeleteEvent(c) /\ c \notin DOMAIN temp_channels) =>
                /\ rec' = rec
                /\ c \notin DOMAIN delh'
                /\ c \notin DOMAIN temp_channels'
                /\ c \notin DOMAIN deletion_tasks']_vars

=============================================================================
